---- MODULE Spec2Model ----
\* Dashboard data acquisition of sfmc-email-dashboard: the OAuth token cache,
\* the sequential endpoint probes and the response composition of the three
\* copies of the GET /api/dashboard handler (server.cjs, api/dashboard.js and
\* the copy appended to api/upload.js).
\*
\* Spec          one handler at a time with the module's token cache
\* SpecProbe     the probe sequences against candidates that answer as planned
\* SpecRace      several dashboard requests sharing the token cache
\* SpecService   DebugSFMCService.getEmailSends and getTrackingData with the
\*               401 retry of makeApiCall
\* SpecExchange  one token exchange applied to an empty cache
\* SpecDemo      the numbers and dates of generateDemoData
\* SpecUpload    POST /api/upload, the DataUpload panel and App's merge
\* SpecShared    uploads beside the dashboard handler of api/upload.js
\* SpecLive      server.cjs with every upstream call completing
\* SpecHealth    GET /api/health of server.cjs asked at any moment
\* SpecClient    sfmcService.getDashboardData of the browser with its fallback
\* SpecRetry     server.cjs handling its dashboard requests one after the other
\* SpecDual      DebugSFMCService.getDashboardData with its two probes running
\*               together on the instance's token
\* SpecApp       the App component: loads, refreshes, period changes, uploads
EXTENDS Integers, Sequences, FiniteSets, TLC

\* ------------------------------------------------------------------ bounds
\* the candidate lists are cut to their first NumCandidates entries
NumCandidates == 2
\* number of clock steps the model lets pass
MaxTicks == 1
\* number of token exchanges the model lets the process issue
MaxExchanges == 2

\* one clock step: an hour, in milliseconds
TickMs == 60 * 60 * 1000

\* ------------------------------------------------------- program constants
\* 5 * 60 * 1000: the margin of ensureAuthenticated
SafetyMarginMs == 5 * 60 * 1000
\* 24 * 60 * 60 * 1000: the window given to a manual token
ManualTokenWindowMs == 24 * 60 * 60 * 1000
\* response.data.expires_in || 3600
DefaultExpiresIn == 3600

Impls == {"server", "vercel", "legacy"}
Categories == {"sends", "tracking"}
Methods == {"GET", "POST", "OPTIONS"}

\* expires_in of a token response, in seconds; 0 stands for absent or zero
ExpiresInValues == {0, 120}

\* outcomes of the token exchange (axios.post)
AuthOutcomes ==
  {"neterr", "timeout", "non2xx", "okToken", "okNoToken", "okNullBody", "okNumToken"}
AuthFailures == {"neterr", "timeout", "non2xx"}

\* outcomes of one candidate GET (axios.get)
GetErrors == {"neterr", "timeout", "s401", "s500"}
GetOk ==
  {"okItems", "okEmptyItems", "okEmptyObj", "okArray", "okEmptyArray",
   "okNull", "okEmptyStr", "okText"}
GetOutcomes == GetErrors \cup GetOk

\* ------------------------------------------------------------ JS values
\* tokens: null, undefined, the manual token, an OAuth token, a numeric token
NullTok == [kind |-> "null", id |-> 0]
UndefinedTok == [kind |-> "undefined", id |-> 0]
ManualTok == [kind |-> "manual", id |-> 0]
NoneTok == [kind |-> "none", id |-> 0]
OAuthTok(n) == [kind |-> "oauth", id |-> n]
NumTok(n) == [kind |-> "number", id |-> n]

Truthy(tok) == tok.kind \notin {"null", "undefined"}
IsString(tok) == tok.kind \in {"manual", "oauth"}

\* tokenExpiry = null
NoExpiry == -1

\* response bodies as JS values; null and '' carry no identity
NullValue == [k |-> "null", src |-> 0]
Body(o, i) ==
  CASE o = "okItems" -> [k |-> "items", src |-> i]
    [] o = "okEmptyItems" -> [k |-> "emptyItems", src |-> i]
    [] o = "okEmptyObj" -> [k |-> "emptyObj", src |-> i]
    [] o = "okArray" -> [k |-> "array", src |-> i]
    [] o = "okEmptyArray" -> [k |-> "emptyArray", src |-> i]
    [] o = "okEmptyStr" -> [k |-> "emptyStr", src |-> 0]
    [] o = "okText" -> [k |-> "text", src |-> i]
    [] OTHER -> NullValue
\* { items: response.data } of api/dashboard.js
WrapItems(o, i) ==
  IF o = "okArray" THEN [k |-> "items", src |-> i] ELSE [k |-> "emptyItems", src |-> i]
TruthyValue(v) == v.k \notin {"null", "emptyStr"}

VARIABLES
  impl,          \* which copy of the handler runs
  manualToken,   \* SFMC_CONFIG.manualToken
  credsOk,       \* clientId && clientSecret && subdomain
  started,       \* app.listen callback has run
  startupPending,\* the startup token exchange is in flight
  now,           \* Date.now()
  accessToken, tokenExpiry, lastAuthError,
  exchanges,     \* token exchanges issued so far
  pc,            \* position of the dashboard handler
  req,           \* the request being handled
  ea,            \* the ensureAuthenticated call of this request
  probe,         \* the two probe sequences
  plan,          \* responses the candidates will give (probe specification)
  after401,      \* accessToken once the code has handled the last 401
  getTokens,     \* bearer tokens carried by the GETs of this request
  probed,        \* what the two probe sequences of this request returned
  response,      \* what the handler has sent, and whether it threw
  reqs,          \* the dashboard requests in progress at the same time
  svc,           \* a DebugSFMCService instance and its getEmailSends call
  xchg,          \* one token exchange applied to a cache
  demo,          \* one call of generateDemoData
  upl,           \* one use of the upload panel or of POST /api/upload
  hc,            \* the last answer of GET /api/health
  cli            \* one call of the browser's sfmcService.getDashboardData

vars ==
  <<impl, manualToken, credsOk, started, startupPending, now, accessToken,
    tokenExpiry, lastAuthError, exchanges, pc, req, ea, probe, plan, after401,
    getTokens, probed, response, reqs, svc, xchg, demo, upl, hc, cli>>

config == <<impl, manualToken, credsOk>>
cache == <<accessToken, tokenExpiry, lastAuthError>>
\* the state of the parts a specification does not run
browser == <<upl, cli>>
elsewhere == <<reqs, svc, xchg, demo, hc, browser>>
notRace == <<svc, xchg, demo, hc, browser>>
notService == <<reqs, xchg, demo, hc, browser>>
\* ------------------------------------------------------------ Token Manager
\* the margin taken off when the expiry is cached
ExpiresIn_LessMargin(e) == (IF e = 0 THEN DefaultExpiresIn ELSE e) - 5 * 60

ExpiresIn(e) == IF e = 0 THEN DefaultExpiresIn ELSE e

\* authenticate(): the cache and the return value after a token exchange that
\* ended with outcome o; n numbers the exchange, t is Date.now()
\* a failed exchange that has already stored what it was given
authenticate_StoresOnFailure(v, o, e, n, tok, exp, err, t) ==
  IF o \in AuthFailures
  THEN [tok |-> NumTok(n), exp |-> t + DefaultExpiresIn * 1000, ret |-> FALSE, err |-> err]
  ELSE [tok |-> OAuthTok(n), exp |-> t + DefaultExpiresIn * 1000, ret |-> TRUE,
        err |-> "null"]

authenticate(v, o, e, n, tok, exp, err, t) ==
  CASE o \in AuthFailures ->
         \* axios.post throws: catch, return false
         [tok |-> tok, exp |-> exp, ret |-> FALSE,
          err |-> IF v = "vercel" THEN "Request failed" ELSE err]
    [] o = "okNullBody" ->
         \* response.data is null: reading access_token throws a TypeError
         [tok |-> tok, exp |-> exp, ret |-> FALSE,
          err |-> IF v = "vercel" THEN "TypeError" ELSE err]
    [] o = "okToken" ->
         [tok |-> OAuthTok(n), exp |-> t + ExpiresIn(e) * 1000, ret |-> TRUE,
          err |-> "null"]
    [] o = "okNoToken" ->
         \* response.data has no access_token: accessToken = undefined
         [tok |-> UndefinedTok, exp |-> t + ExpiresIn(e) * 1000, ret |-> TRUE,
          err |-> "null"]
    [] OTHER ->
         \* access_token is a number: api/dashboard.js calls substring on it
         \* after the cache was written
         [tok |-> NumTok(n), exp |-> t + ExpiresIn(e) * 1000,
          ret |-> (v # "vercel"),
          err |-> IF v = "vercel" THEN "TypeError" ELSE "null"]

\* the exchange can only fail when the credentials are missing
AuthOutcomesFor(creds) == IF creds THEN AuthOutcomes ELSE AuthFailures
\* only a response with an object body carries an expires_in
CarriesExpiresIn(o, e) == o \in {"okToken", "okNoToken", "okNumToken"} \/ e = 0

\* the expiry comparison turned around
CacheStale_Flipped(tok, exp, t) ==
  ~Truthy(tok) \/ exp = NoExpiry \/ exp >= t + SafetyMarginMs

\* the test of ensureAuthenticated that decides for a token exchange
CacheStale(tok, exp, t) ==
  ~Truthy(tok) \/ exp = NoExpiry \/ exp <= t + SafetyMarginMs

\* ----------------------------------------------------------- Endpoint Prober
\* a loop that returns on the failures and goes on after the answers
ProbeReturns_OnFailure(v, c, o) == o \in GetErrors

\* whether the loop body returns on outcome o of the current candidate
ProbeReturns(v, c, o) ==
  CASE o \in GetErrors -> FALSE
    [] v = "server" ->
         \* data.items throws on a null body
         o # "okNull"
    [] v = "vercel" /\ c = "sends" ->
         \* Object.keys(null) throws; returns on items, on an array, and on any
         \* other body with at least one key
         o \in {"okItems", "okEmptyItems", "okArray", "okEmptyArray", "okText"}
    [] OTHER -> TRUE

\* the value the loop body returns
ProbeValue(v, c, o, i) ==
  IF v = "vercel" /\ c = "sends" /\ o \in {"okArray", "okEmptyArray"}
  THEN WrapItems(o, i)
  ELSE Body(o, i)

ProbeOff == [st |-> "off", idx |-> 0, asked |-> <<>>, result |-> NullValue]
\* the first candidate has been requested
ProbeFirst == [st |-> "waiting", idx |-> 1, asked |-> <<1>>, result |-> NullValue]

\* a loop that requests the same candidate again when it gave nothing
ProbeStep_SameAgain(v, c, pr, o) ==
  IF ProbeReturns(v, c, o)
  THEN [pr EXCEPT !.st = "done", !.result = ProbeValue(v, c, o, pr.idx)]
  ELSE [pr EXCEPT !.asked = Append(@, pr.idx)]

\* one turn of the for loop of fetchEmailSends / fetchTrackingEvents: the
\* response of candidate pr.idx arrives with outcome o
ProbeStep(v, c, pr, o) ==
  IF ProbeReturns(v, c, o)
  THEN [pr EXCEPT !.st = "done", !.result = ProbeValue(v, c, o, pr.idx)]
  ELSE IF pr.idx < NumCandidates
       THEN [pr EXCEPT !.idx = @ + 1, !.asked = Append(@, pr.idx + 1)]
       ELSE [pr EXCEPT !.st = "done", !.result = NullValue]

\* ----------------------------------------------------------- Data Synthesizer
\* the flags of generateDemoData (its numbers do not depend on the upstream outcomes)
generateDemoData(v) ==
  [kind |-> "dashboard", isRealData |-> FALSE,
   error |-> IF v = "server"
             THEN "Using demo data - SFMC API authentication failed"
             ELSE "Demo data - SFMC API authentication failed",
   connectionStatus |-> IF v = "server" THEN "undefined" ELSE "Authentication failed",
   sfmcConnected |-> IF v = "server" THEN "undefined" ELSE "false"]

processRealSFMCData(v) ==
  [generateDemoData(v) EXCEPT !.isRealData = TRUE, !.error = "undefined"]

\* ----------------------------------------------------------- Response Composer
NoResponse ==
  [sent |-> 0, status |-> 0, escaped |-> FALSE,
   body |-> [kind |-> "none", isRealData |-> FALSE,
             error |-> "undefined", connectionStatus |-> "undefined",
             sfmcConnected |-> "undefined"]]

\* res.json(payload)
Json(payload) == [sent |-> 1, status |-> 200, escaped |-> FALSE, body |-> payload]

\* res.status(405).json({ error: 'Method not allowed' })
MethodNotAllowed ==
  [NoResponse EXCEPT !.sent = 1, !.status = 405, !.body.kind = "error",
                     !.body.error = "Method not allowed"]
\* res.status(200).end()
Preflight == [NoResponse EXCEPT !.sent = 1, !.status = 200, !.body.kind = "empty"]

\* the authentication-failed branch answering with the connected flags
AuthFailedPayload_Connected(v, err) ==
  [generateDemoData(v) EXCEPT !.sfmcConnected = "true"]

\* the branch taken when ensureAuthenticated returned false
AuthFailedPayload(v, err) ==
  IF v = "vercel"
  THEN [generateDemoData(v) EXCEPT
          !.error = IF err = "null" THEN "SFMC authentication failed" ELSE err]
  ELSE generateDemoData(v)

\* a catch block that answers 500 with an error object
HandlerCatch_500(v) ==
  [NoResponse EXCEPT !.sent = 1, !.status = 500, !.body.kind = "error",
                     !.body.error = "Internal Server Error"]

\* the catch block of the handler
HandlerCatch(v) ==
  IF v = "vercel"
  THEN Json([generateDemoData(v) EXCEPT !.error = "Dashboard handler error: TypeError"])
  ELSE Json(generateDemoData(v))

\* api/dashboard.js: authenticated but accessToken is falsy
UnexpectedStatePayload(v) ==
  [generateDemoData(v) EXCEPT !.error = "Unexpected authentication state"]

\* the payload when both probes are over and at least one value is truthy
RealDataPayload(v) ==
  IF v = "vercel"
  THEN [processRealSFMCData(v) EXCEPT
          !.connectionStatus = "Successfully connected to SFMC - Real data loaded",
          !.sfmcConnected = "true", !.error = "undefined"]
  ELSE processRealSFMCData(v)

\* the payload when authentication succeeded and no probe gave a truthy value
\* (server.cjs builds it after the email-definitions check, defsOk tells how
\* that check ended)
NoDataPayload(v, defsOk) ==
  CASE v = "vercel" ->
         [generateDemoData(v) EXCEPT
            !.isRealData = FALSE,
            !.connectionStatus = "Connected to SFMC - API permissions limited, using demo data",
            !.sfmcConnected = "true", !.error = "undefined"]
    [] v = "legacy" ->
         [generateDemoData(v) EXCEPT
            !.isRealData = TRUE,
            !.error = "Connected to SFMC - Using intelligent demo data due to API permission limitations",
            !.connectionStatus = "Connected with limited permissions",
            !.sfmcConnected = "true"]
    [] OTHER ->
         IF defsOk
         THEN [generateDemoData(v) EXCEPT
                 !.isRealData = FALSE,
                 !.error = "Connected to SFMC successfully! Found n email definitions.",
                 !.connectionStatus = "Connected - No email data yet",
                 !.sfmcConnected = "true"]
         ELSE [generateDemoData(v) EXCEPT
                 !.isRealData = FALSE,
                 !.error = "Connected to SFMC but API has limited permissions.",
                 !.connectionStatus = "Connected with limited permissions",
                 !.sfmcConnected = "true"]

\* a returned value, as the claims see it
ResultClass(val) ==
  CASE val = NullValue -> "null"
    [] val.k = "emptyStr" -> "empty"
    [] OTHER -> "value"
NotProbed == [c \in Categories |-> "notRun"]

\* emailSends || trackingEvents
HasRealData(pr) == TruthyValue(pr["sends"].result) \/ TruthyValue(pr["tracking"].result)
\* ------------------------------------------------------------------- state
\* a token is cached and its expiry is more than five minutes after t
FreshAt(tok, exp, t) ==
  /\ tok.kind \in {"manual", "oauth", "number"}
  /\ exp # NoExpiry
  /\ exp - t > 5 * 60 * 1000

NoRequest == [method |-> "none", cat |-> "none"]
\* the ensureAuthenticated call of a request: fresh tells whether the cache
\* held a token with more than the margin left when it was called, kept whether
\* the cache at its return was the cache at its call
NoCall ==
  [result |-> "none", calls |-> 0, outcome |-> "none", id |-> 0,
   fresh |-> FALSE, kept |-> TRUE]
NoPlan == <<>>
NoRequests == <<>>
NoService == <<>>
NoExchange == <<>>
NoDemo == <<>>
NoUpload == <<>>
NoHealth == <<>>
NoClient == <<>>

\* module load: accessToken and tokenExpiry come from the manual token
Init ==
  /\ impl \in Impls
  /\ manualToken \in {NullTok, ManualTok}
  /\ credsOk \in BOOLEAN
  /\ started = (impl # "server")
  /\ startupPending = FALSE
  /\ now = 0
  /\ accessToken = manualToken
  /\ tokenExpiry = IF manualToken # NullTok THEN ManualTokenWindowMs ELSE NoExpiry
  /\ lastAuthError = "null"
  /\ exchanges = 0
  /\ pc = "idle"
  /\ req = NoRequest
  /\ ea = NoCall
  /\ probe = [c \in Categories |-> ProbeOff]
  /\ plan = NoPlan
  /\ after401 = NoneTok
  /\ getTokens = {}
  /\ probed = NotProbed
  /\ response = NoResponse
  /\ reqs = NoRequests
  /\ svc = NoService
  /\ xchg = NoExchange
  /\ demo = NoDemo
  /\ upl = NoUpload
  /\ hc = NoHealth
  /\ cli = NoClient

\* the clock advances
Tick ==
  /\ now + TickMs <= MaxTicks * TickMs
  /\ now' = now + TickMs
  /\ UNCHANGED <<config, elsewhere, started, startupPending, cache, exchanges, pc, req, ea,
                 probe, plan, after401, getTokens, probed, response>>

\* app.listen callback of server.cjs: tests authentication when the three
\* credentials are set
Listen ==
  /\ impl = "server"
  /\ ~started
  /\ started' = TRUE
  /\ startupPending' = credsOk
  /\ exchanges' = IF credsOk THEN exchanges + 1 ELSE exchanges
  /\ UNCHANGED <<config, elsewhere, now, cache, pc, req, ea, probe, plan, after401,
                 getTokens, probed, response>>

\* the startup token exchange completes: authenticate() writes the cache
StartupAuthResponse(o, e) ==
  /\ startupPending
  /\ o \in AuthOutcomesFor(credsOk)
  /\ CarriesExpiresIn(o, e)
  /\ LET r == authenticate(impl, o, e, 1, accessToken, tokenExpiry, lastAuthError, now)
     IN /\ accessToken' = r.tok
        /\ tokenExpiry' = r.exp
        /\ lastAuthError' = r.err
  /\ startupPending' = FALSE
  /\ UNCHANGED <<config, elsewhere, started, now, exchanges, pc, req, ea, probe, plan,
                 after401, getTokens, probed, response>>

\* the handler from the return of ensureAuthenticated (value ret, the cache
\* then holding tok and err) to its next await or to its response: where it
\* stops, what it has sent, the probe sequences it started and the tokens its
\* GETs carry
HandlerAfterAuth(v, ret, tok, err) ==
  IF ~ret
  THEN [pc |-> "done", response |-> Json(AuthFailedPayload(v, err)),
        probe |-> [c \in Categories |-> ProbeOff], getTokens |-> {}]
  ELSE IF Truthy(tok)
  THEN IF v = "vercel" /\ ~IsString(tok)
       THEN \* accessToken.substring throws inside the try block
            [pc |-> "done", response |-> HandlerCatch(v),
             probe |-> [c \in Categories |-> ProbeOff], getTokens |-> {}]
       ELSE \* Promise.all / allSettled: both first candidates are requested
            [pc |-> "probing", response |-> NoResponse,
             probe |-> [c \in Categories |-> ProbeFirst], getTokens |-> {tok}]
  ELSE CASE v = "server" ->
              \* falls through to the email-definitions check
              [pc |-> "awaitDefs", response |-> NoResponse,
               probe |-> [c \in Categories |-> ProbeOff], getTokens |-> {tok}]
         [] v = "vercel" ->
              [pc |-> "done", response |-> Json(UnexpectedStatePayload(v)),
               probe |-> [c \in Categories |-> ProbeOff], getTokens |-> {}]
         [] OTHER ->
              [pc |-> "done", response |-> Json(NoDataPayload(v, FALSE)),
               probe |-> [c \in Categories |-> ProbeOff], getTokens |-> {}]

AfterAuth(ret, tok, err) ==
  LET h == HandlerAfterAuth(impl, ret, tok, err)
  IN /\ response' = h.response
     /\ pc' = h.pc
     /\ probe' = h.probe
     /\ getTokens' = h.getTokens

\* a request that is not a GET reaches the serverless handlers
OtherMethod(m) ==
  /\ impl # "server"
  /\ started
  /\ pc \in {"idle", "done"}
  /\ m \in Methods \ {"GET"}
  /\ req' = [method |-> m, cat |-> "none"]
  /\ response' = IF m = "OPTIONS" THEN Preflight ELSE MethodNotAllowed
  /\ pc' = "done"
  /\ ea' = NoCall
  /\ probe' = [c \in Categories |-> ProbeOff]
  /\ getTokens' = {}
  /\ after401' = NoneTok
  /\ probed' = NotProbed
  /\ UNCHANGED <<config, elsewhere, started, startupPending, now, cache, exchanges, plan>>

\* GET /api/dashboard up to the first await that leaves the process:
\* ensureAuthenticated and, when no token exchange is needed, what follows it
DashboardRequest ==
  /\ started
  /\ pc \in {"idle", "done"}
  /\ (manualToken = NullTok /\ CacheStale(accessToken, tokenExpiry, now))
       => exchanges < MaxExchanges
  /\ req' = [method |-> "GET", cat |-> "both"]
  /\ after401' = NoneTok
  /\ probed' = NotProbed
  /\ IF manualToken # NullTok
     THEN \* accessToken = SFMC_CONFIG.manualToken; return true
          /\ accessToken' = manualToken
          /\ ea' = [NoCall EXCEPT !.result = "true",
                      !.fresh = FreshAt(accessToken, tokenExpiry, now),
                      !.kept = (manualToken = accessToken)]
          /\ AfterAuth(TRUE, manualToken, lastAuthError)
          /\ UNCHANGED <<tokenExpiry, lastAuthError, exchanges>>
     ELSE IF CacheStale(accessToken, tokenExpiry, now)
     THEN \* return await authenticate()
          /\ exchanges' = exchanges + 1
          /\ ea' = [NoCall EXCEPT !.result = "pending", !.calls = 1,
                      !.id = exchanges + 1,
                      !.fresh = FreshAt(accessToken, tokenExpiry, now)]
          /\ pc' = "awaitAuth"
          /\ response' = NoResponse
          /\ probe' = [c \in Categories |-> ProbeOff]
          /\ getTokens' = {}
          /\ UNCHANGED cache
     ELSE \* return true
          /\ ea' = [NoCall EXCEPT !.result = "true",
                      !.fresh = FreshAt(accessToken, tokenExpiry, now)]
          /\ AfterAuth(TRUE, accessToken, lastAuthError)
          /\ UNCHANGED <<cache, exchanges>>
  /\ UNCHANGED <<config, elsewhere, started, startupPending, now, plan>>

\* the token exchange of ensureAuthenticated completes
AuthResponse(o, e) ==
  /\ pc = "awaitAuth"
  /\ o \in AuthOutcomesFor(credsOk)
  /\ CarriesExpiresIn(o, e)
  /\ LET r == authenticate(impl, o, e, ea.id, accessToken, tokenExpiry, lastAuthError, now)
     IN /\ accessToken' = r.tok
        /\ tokenExpiry' = r.exp
        /\ lastAuthError' = r.err
        /\ ea' = [ea EXCEPT !.result = IF r.ret THEN "true" ELSE "false",
                            !.outcome = o, !.id = 0,
                            !.kept = (r.tok = accessToken /\ r.exp = tokenExpiry)]
        /\ AfterAuth(r.ret, r.tok, r.err)
  /\ UNCHANGED <<config, elsewhere, started, startupPending, now, exchanges, req, plan,
                 after401, probed>>

\* what the handler does once both probe sequences have returned (pr), the
\* cache holding tok: where it stops, what it has sent and the token of the GET
\* it issues, if any
HandlerAfterProbes(v, pr, tok) ==
  IF HasRealData(pr)
  THEN [pc |-> "done", response |-> Json(RealDataPayload(v)), gets |-> {}]
  ELSE IF v = "server"
  THEN \* axios.get(.../messaging/v1/email/definitions?$top=1)
       [pc |-> "awaitDefs", response |-> NoResponse, gets |-> {tok}]
  ELSE [pc |-> "done", response |-> Json(NoDataPayload(v, FALSE)), gets |-> {}]

\* the handler's locals emailSends and trackingEvents go out of scope
Compose(pr) ==
  LET h == HandlerAfterProbes(impl, pr, accessToken)
  IN /\ probe' = [c \in Categories |-> ProbeOff]
     /\ probed' = [c \in Categories |-> ResultClass(pr[c].result)]
     /\ response' = h.response
     /\ pc' = h.pc
     /\ getTokens' = getTokens \cup h.gets

\* the response of the candidate that sequence c waits for arrives
ProbeResponse(c, o) ==
  /\ pc = "probing"
  /\ c \in Categories
  /\ probe[c].st = "waiting"
  /\ o \in GetOutcomes
  /\ LET next == ProbeStep(impl, c, probe[c], o)
         pr == [probe EXCEPT ![c] = next]
     IN /\ after401' = IF o = "s401" THEN accessToken ELSE after401
        /\ IF \A d \in Categories : pr[d].st = "done"
           THEN Compose(pr)
           ELSE /\ probe' = pr
                /\ probed' = probed
                /\ pc' = pc
                /\ response' = response
                /\ getTokens' = IF next.st = "waiting"
                                THEN getTokens \cup {accessToken}
                                ELSE getTokens
  /\ UNCHANGED <<config, elsewhere, started, startupPending, now, cache, exchanges, req, ea, plan>>

\* server.cjs: the email-definitions check completes
DefinitionsResponse(o) ==
  /\ pc = "awaitDefs"
  /\ o \in GetOutcomes
  /\ response' = Json(NoDataPayload(impl, o \in GetOk \ {"okNull"}))
  /\ pc' = "done"
  /\ UNCHANGED <<config, elsewhere, started, startupPending, now, cache, exchanges, req, ea,
                 probe, plan, after401, getTokens, probed>>

Next ==
  \/ Tick
  \/ Listen
  \/ \E o \in AuthOutcomes, e \in ExpiresInValues : StartupAuthResponse(o, e)
  \/ \E m \in Methods : OtherMethod(m)
  \/ DashboardRequest
  \/ \E o \in AuthOutcomes, e \in ExpiresInValues : AuthResponse(o, e)
  \/ \E c \in Categories, o \in GetOutcomes : ProbeResponse(c, o)
  \/ \E o \in GetOutcomes : DefinitionsResponse(o)

Spec == Init /\ [][Next]_vars

\* every upstream call completes: axios settles each request with a response,
\* an error or its timeout (15000 ms for the token exchange and for a candidate,
\* 10000 ms for the email-definitions check)
UpstreamCompletes ==
  /\ WF_vars(\E o \in AuthOutcomes, e \in ExpiresInValues : AuthResponse(o, e))
  /\ WF_vars(\E c \in Categories, o \in GetOutcomes : ProbeResponse(c, o))
  /\ WF_vars(\E o \in GetOutcomes : DefinitionsResponse(o))
\* the steps of the process while the clock stands still
NextLive ==
  \/ Listen
  \/ \E o \in AuthOutcomes, e \in ExpiresInValues : StartupAuthResponse(o, e)
  \/ \E m \in Methods : OtherMethod(m)
  \/ DashboardRequest
  \/ \E o \in AuthOutcomes, e \in ExpiresInValues : AuthResponse(o, e)
  \/ \E c \in Categories, o \in GetOutcomes : ProbeResponse(c, o)
  \/ \E o \in GetOutcomes : DefinitionsResponse(o)
SpecLive == Init /\ [][NextLive]_vars /\ UpstreamCompletes
\* --------------------------------------------- the probe function on its own
\* the probe sequences run against candidates whose responses are fixed in
\* advance, with a valid cached token: fetchEmailSends alone, fetchTrackingEvents
\* alone, or both started together as Promise.all does (candidate i of either
\* list then answers plan[i])
InitProbe ==
  /\ impl \in Impls
  /\ manualToken = NullTok
  /\ credsOk = TRUE
  /\ started = TRUE
  /\ startupPending = FALSE
  /\ now = 0
  /\ accessToken = OAuthTok(1)
  /\ tokenExpiry = DefaultExpiresIn * 1000
  /\ lastAuthError = "null"
  /\ exchanges = 1
  /\ pc = "probeOnly"
  /\ req \in {[method |-> "GET", cat |-> c] : c \in Categories \cup {"both"}}
  /\ ea = NoCall
  /\ probe = [c \in Categories |->
                IF req.cat \in {c, "both"} THEN ProbeFirst ELSE ProbeOff]
  /\ plan \in [1..NumCandidates -> GetOutcomes]
  /\ after401 = NoneTok
  /\ getTokens = {OAuthTok(1)}
  /\ probed = NotProbed
  /\ response = NoResponse
  /\ reqs = NoRequests
  /\ svc = NoService
  /\ xchg = NoExchange
  /\ demo = NoDemo
  /\ upl = NoUpload
  /\ hc = NoHealth
  /\ cli = NoClient

\* the candidate that sequence c waits for answers as planned
PlannedResponse(c) ==
  /\ pc = "probeOnly"
  /\ c \in Categories
  /\ probe[c].st = "waiting"
  /\ LET o == plan[probe[c].idx]
         next == ProbeStep(impl, c, probe[c], o)
     IN /\ probe' = [probe EXCEPT ![c] = next]
        /\ after401' = IF o = "s401" THEN accessToken ELSE after401
        /\ getTokens' = IF next.st = "waiting"
                        THEN getTokens \cup {accessToken}
                        ELSE getTokens
  /\ UNCHANGED <<config, elsewhere, started, startupPending, now, cache, exchanges,
                 pc, req, ea, plan, probed, response>>

NextProbe == \E c \in Categories : PlannedResponse(c)

SpecProbe == InitProbe /\ [][NextProbe]_vars
\* ------------------------------------------ dashboard requests side by side
\* number of dashboard requests the process handles at the same time
NumRequests == 2
Requests == 1..NumRequests

\* candidate responses tried in the concurrent runs
RaceGetOutcomes == {"s401", "s500", "okItems", "okNull"}

\* one request: its position, the return value of its ensureAuthenticated,
\* the cache pair its own token exchange wrote, its probe sequences, the kinds
\* of token its candidate GETs carried and its response
IdleRequest ==
  [pc |-> "idle", ret |-> "none", wrote |-> <<NoneTok, NoExpiry>>,
   probe |-> [c \in Categories |-> ProbeOff], carried |-> {},
   response |-> NoResponse]

\* a probe record without the identity of the candidates
Anonymous(pr) == [pr EXCEPT !.asked = <<>>, !.result.src = 0]

\* server.cjs is listening with the three credentials and no manual token,
\* nothing is cached yet
InitRace ==
  /\ impl \in Impls
  /\ manualToken = NullTok
  /\ credsOk = TRUE
  /\ started = TRUE
  /\ startupPending = FALSE
  /\ now = 0
  /\ accessToken = NullTok
  /\ tokenExpiry = NoExpiry
  /\ lastAuthError = "null"
  /\ exchanges = 0
  /\ pc = "race"
  /\ req = NoRequest
  /\ ea = NoCall
  /\ probe = [c \in Categories |-> ProbeOff]
  /\ plan = NoPlan
  /\ after401 = NoneTok
  /\ getTokens = {}
  /\ probed = NotProbed
  /\ response = NoResponse
  /\ reqs = [r \in Requests |-> IdleRequest]
  /\ svc = NoService
  /\ xchg = NoExchange
  /\ demo = NoDemo
  /\ upl = NoUpload
  /\ hc = NoHealth
  /\ cli = NoClient

\* request r after its ensureAuthenticated returned ret with the cache
\* holding tok and err
RaceAfterAuth(r, ret, tok, err, wrote) ==
  LET h == HandlerAfterAuth(impl, ret, tok, err)
  IN reqs' = [reqs EXCEPT ![r] =
                [pc |-> h.pc, ret |-> IF ret THEN "true" ELSE "false",
                 wrote |-> wrote,
                 probe |-> [c \in Categories |-> Anonymous(h.probe[c])],
                 carried |-> IF h.pc = "probing" THEN {tok.kind} ELSE {},
                 response |-> h.response]]

\* GET /api/dashboard of request r up to its first await
RaceRequest(r) ==
  /\ pc = "race"
  /\ r \in Requests
  /\ reqs[r].pc = "idle"
  /\ IF CacheStale(accessToken, tokenExpiry, now)
     THEN /\ exchanges' = exchanges + 1
          /\ reqs' = [reqs EXCEPT ![r].pc = "awaitAuth"]
     ELSE /\ RaceAfterAuth(r, TRUE, accessToken, lastAuthError, <<NoneTok, NoExpiry>>)
          /\ UNCHANGED exchanges
  /\ UNCHANGED <<config, notRace, started, startupPending, now, cache, pc, req, ea, probe,
                 plan, after401, getTokens, probed, response>>

\* the token exchange of request r completes
RaceAuthResponse(r, o, e) ==
  /\ pc = "race"
  /\ r \in Requests
  /\ reqs[r].pc = "awaitAuth"
  /\ o \in AuthOutcomesFor(credsOk)
  /\ CarriesExpiresIn(o, e)
  /\ LET a == authenticate(impl, o, e, r, accessToken, tokenExpiry, lastAuthError, now)
         wrote == IF a.tok # accessToken \/ a.exp # tokenExpiry
                  THEN <<a.tok, a.exp>> ELSE <<NoneTok, NoExpiry>>
     IN /\ accessToken' = a.tok
        /\ tokenExpiry' = a.exp
        /\ lastAuthError' = a.err
        /\ RaceAfterAuth(r, a.ret, a.tok, a.err, wrote)
  /\ UNCHANGED <<config, notRace, started, startupPending, now, exchanges, pc, req, ea,
                 probe, plan, after401, getTokens, probed, response>>

\* the response of the candidate that sequence c of request r waits for
RaceProbeResponse(r, c, o) ==
  /\ pc = "race"
  /\ r \in Requests
  /\ c \in Categories
  /\ reqs[r].pc = "probing"
  /\ reqs[r].probe[c].st = "waiting"
  /\ o \in RaceGetOutcomes
  /\ LET next == ProbeStep(impl, c, reqs[r].probe[c], o)
         pr == [reqs[r].probe EXCEPT ![c] = Anonymous(next)]
         h == HandlerAfterProbes(impl, pr, accessToken)
     IN IF \A d \in Categories : pr[d].st = "done"
        THEN reqs' = [reqs EXCEPT ![r].pc = h.pc, ![r].response = h.response,
                                  ![r].probe = [d \in Categories |-> ProbeOff]]
        ELSE reqs' = [reqs EXCEPT ![r].probe = pr,
                                  ![r].carried = IF next.st = "waiting"
                                                 THEN @ \cup {accessToken.kind}
                                                 ELSE @]
  /\ UNCHANGED <<config, notRace, started, startupPending, now, cache, exchanges, pc, req,
                 ea, probe, plan, after401, getTokens, probed, response>>

\* server.cjs: the email-definitions check of request r completes
RaceDefinitionsResponse(r, o) ==
  /\ pc = "race"
  /\ r \in Requests
  /\ reqs[r].pc = "awaitDefs"
  /\ o \in RaceGetOutcomes
  /\ reqs' = [reqs EXCEPT ![r].pc = "done",
                 ![r].response = Json(NoDataPayload(impl, o \in GetOk \ {"okNull"}))]
  /\ UNCHANGED <<config, notRace, started, startupPending, now, cache, exchanges, pc, req,
                 ea, probe, plan, after401, getTokens, probed, response>>

NextRace ==
  \/ \E r \in Requests : RaceRequest(r)
  \/ \E r \in Requests, o \in AuthOutcomes, e \in ExpiresInValues :
       RaceAuthResponse(r, o, e)
  \/ \E r \in Requests, c \in Categories, o \in RaceGetOutcomes :
       RaceProbeResponse(r, c, o)
  \/ \E r \in Requests, o \in RaceGetOutcomes : RaceDefinitionsResponse(r, o)

SpecRace == InitRace /\ [][NextRace]_vars

\* server.cjs handling its requests one after the other: request r arrives
\* once the requests before it have been answered
InitRetry == InitRace /\ impl = "server"

RetryRequest(r) ==
  /\ \A q \in Requests : IF q < r THEN reqs[q].pc = "done" ELSE reqs[q].pc = "idle"
  /\ RaceRequest(r)

NextRetry ==
  \/ \E r \in Requests : RetryRequest(r)
  \/ \E r \in Requests, o \in AuthOutcomes, e \in ExpiresInValues :
       RaceAuthResponse(r, o, e)
  \/ \E r \in Requests, c \in Categories, o \in RaceGetOutcomes :
       RaceProbeResponse(r, c, o)
  \/ \E r \in Requests, o \in RaceGetOutcomes : RaceDefinitionsResponse(r, o)

SpecRetry == InitRetry /\ [][NextRetry]_vars
\* ------------------- DebugSFMCService.getEmailSends and getTrackingData
\* the state of the dashboard handlers, which the service does not touch
handlerState ==
  <<config, started, startupPending, cache, exchanges, pc, req, ea, probe, plan,
    after401, getTokens, probed, response>>

\* (data.expires_in - 120) * 1000
ServiceMarginS == 120
\* expires_in of the token responses the service is given, in seconds
ServiceExpiresInValues == {120, 3600}
\* fetch has no timeout
ServiceAuthOutcomes == AuthOutcomes \ {"timeout"}
ServiceGetOutcomes == GetOutcomes \ {"timeout"}

\* DebugSFMCService.authenticate(): the instance's token and expiry after a
\* token exchange that ended with outcome o, and whether it threw
serviceAuthenticate(o, e, n, tok, exp, t) ==
  CASE o \in {"neterr", "non2xx", "okNullBody"} ->
         \* fetch rejects, !response.ok, or data is null
         [tok |-> tok, exp |-> exp, threw |-> TRUE]
    [] o = "okToken" ->
         [tok |-> OAuthTok(n), exp |-> t + (e - ServiceMarginS) * 1000, threw |-> FALSE]
    [] o = "okNoToken" ->
         [tok |-> UndefinedTok, exp |-> t + (e - ServiceMarginS) * 1000, threw |-> FALSE]
    [] OTHER ->
         \* a numeric access_token: substring throws in the log line that
         \* follows the two assignments
         [tok |-> NumTok(n), exp |-> t + (e - ServiceMarginS) * 1000, threw |-> TRUE]

\* the test of ensureValidToken
TokenInvalid(tok, exp, t) ==
  ~Truthy(tok) \/ (exp \notin {NoExpiry, 0} /\ t >= exp)

\* makeApiCall re-authenticates and fetches again on every failed status
RetriesOn_AnyError(o) == o \in {"s401", "s500"}

\* makeApiCall: response.status === 401
RetriesOn(o) == o = "s401"

\* what getEmailSends does with the value makeApiCall returned for a body
LoopReturns(o) == o \in {"okItems", "okArray", "okJsonText"}

\* getTrackingData leaves its loop at the first answer it keeps
TrackingReturns_OnItems(o) == o = "okItems"

\* getTrackingData has no return inside its loop
TrackingReturns(o) == FALSE

\* getTrackingData: response.items && response.items.length > 0
TrackingKeeps(o) == o = "okItems"
\* the length of trackingEndpoints
NumTrackingEndpoints == 8
\* the model runs getTrackingData on NumCandidates consecutive entries of
\* trackingEndpoints, starting at the first or at the fourth
TrackingWindows == {1, 4}
\* endpoint.includes('opened') ? 'opens' : endpoint.includes('clicked') ?
\* 'clicks' : endpoint.includes('bounced') ? 'bounces' : 'other', for entry k
eventTypeOf(k) ==
  CASE k = 1 -> "opens" [] k = 2 -> "clicks" [] k = 3 -> "bounces" [] OTHER -> "other"
EventTypes == {"opens", "clicks", "bounces", "other"}

\* how a call of makeApiCall ended: resolved with the body of the response
\* named by from, or rejected
NoSettlement == [settled |-> "none", from |-> "none"]
\* a body that response.json() cannot parse
NotJson == {"okEmptyStr", "okText"}
\* 2xx answers to fetch: those of axios, and a body that is a JSON string
ServiceOk == GetOk \cup {"okJsonText"}

\* makeApiCall once the fetch (retry = FALSE) or the second fetch after a 401
\* (retry = TRUE) has ended with outcome o, a first 401 aside: the first
\* fetch throws on a status that is not ok, the second returns
\* retryResponse.json() whatever the status
makeApiCall(retry, o) ==
  IF o = "neterr" \/ o \in NotJson THEN [settled |-> "rejected", from |-> o]
  ELSE IF o \in ServiceOk \/ retry THEN [settled |-> "resolved", from |-> o]
  ELSE [settled |-> "rejected", from |-> o]

\* the instance before getEmailSends (cat = "sends") or getTrackingData
\* (cat = "tracking", on the entries from, from + 1, ...) is called; gets
\* counts the requests sent to each candidate, first is the outcome of the
\* first one, reauths the token exchanges issued between a candidate's 401 and
\* its second request, tried the candidates makeApiCall was called for, hits
\* the candidates that gave the loop a non-empty item collection, hit the
\* candidate whose items getEmailSends returned and results the candidate
\* whose items getTrackingData returns under each event type
NewService(cat, from) ==
  [pc |-> "idle", accessToken |-> NullTok, tokenExpiry |-> NoExpiry,
   cat |-> cat, from |-> from,
   idx |-> 0, exchanges |-> 0,
   gets |-> [i \in 1..NumCandidates |-> 0],
   first |-> [i \in 1..NumCandidates |-> "none"],
   reauths |-> [i \in 1..NumCandidates |-> 0],
   tried |-> {}, hits |-> <<>>, hit |-> 0,
   results |-> [t \in EventTypes |-> 0],
   result |-> "none", last |-> NoSettlement]

InitService ==
  /\ impl = "server"
  /\ manualToken = NullTok
  /\ credsOk = TRUE
  /\ started = TRUE
  /\ startupPending = FALSE
  /\ now = TickMs
  /\ accessToken = NullTok
  /\ tokenExpiry = NoExpiry
  /\ lastAuthError = "null"
  /\ exchanges = 0
  /\ pc = "service"
  /\ req = NoRequest
  /\ ea = NoCall
  /\ probe = [c \in Categories |-> ProbeOff]
  /\ plan = NoPlan
  /\ after401 = NoneTok
  /\ getTokens = {}
  /\ probed = NotProbed
  /\ response = NoResponse
  /\ reqs = NoRequests
  /\ svc \in {NewService("sends", 1)}
              \cup {NewService("tracking", from) : from \in TrackingWindows}
  /\ svc.from + NumCandidates - 1 <= NumTrackingEndpoints
  /\ xchg = NoExchange
  /\ demo = NoDemo
  /\ upl = NoUpload
  /\ hc = NoHealth
  /\ cli = NoClient

\* makeApiCall(endpoints[i]) up to its first await that leaves the process:
\* ensureValidToken, then either the token exchange or the fetch
CallCandidate(sv, i) ==
  IF i > NumCandidates
  THEN \* return [] / return results
       [sv EXCEPT !.pc = "done", !.idx = 0,
                  !.result = IF sv.cat = "sends" THEN "empty" ELSE "results"]
  ELSE IF TokenInvalid(sv.accessToken, sv.tokenExpiry, now)
  THEN [sv EXCEPT !.pc = "preAuth", !.idx = i, !.exchanges = @ + 1,
                  !.tried = @ \cup {i}]
  ELSE [sv EXCEPT !.pc = "get", !.idx = i, !.gets[i] = @ + 1,
                  !.tried = @ \cup {i}]

\* the loop body once makeApiCall has returned the body of outcome o for the
\* current candidate
LoopStep(sv, o) ==
  LET seen == IF o = "okItems" THEN [sv EXCEPT !.hits = Append(@, sv.idx)] ELSE sv
  IN IF sv.cat = "sends"
     THEN IF LoopReturns(o)
          THEN [seen EXCEPT !.pc = "done", !.idx = 0, !.result = "items",
                            !.hit = sv.idx]
          ELSE CallCandidate(seen, sv.idx + 1)
     ELSE LET kept ==
                IF TrackingKeeps(o)
                THEN [seen EXCEPT !.results[eventTypeOf(sv.from + sv.idx - 1)] = sv.idx]
                ELSE seen
          IN IF TrackingReturns(o)
             THEN [kept EXCEPT !.pc = "done", !.idx = 0, !.result = "results"]
             ELSE CallCandidate(kept, sv.idx + 1)

\* getEmailSends or getTrackingData is called
ServiceStart ==
  /\ pc = "service"
  /\ svc.pc = "idle"
  /\ svc' = CallCandidate(svc, 1)
  /\ UNCHANGED <<handlerState, notService, now>>

\* a token exchange of the service completes: the one ensureValidToken
\* issued before the fetch, or the one issued after a 401
ServiceAuthResponse(o, e) ==
  /\ pc = "service"
  /\ svc.pc \in {"preAuth", "reAuth"}
  /\ o \in ServiceAuthOutcomes
  /\ e \in ServiceExpiresInValues
  /\ LET a == serviceAuthenticate(o, e, svc.exchanges, svc.accessToken,
                                  svc.tokenExpiry, now)
         sv == [svc EXCEPT !.accessToken = a.tok, !.tokenExpiry = a.exp]
     IN svc' = IF a.threw
               THEN \* makeApiCall throws, the loop goes on
                    CallCandidate([sv EXCEPT !.last = [settled |-> "rejected",
                                                       from |-> "auth"]],
                                  svc.idx + 1)
               ELSE \* fetch(fullUrl, finalOptions)
                    [sv EXCEPT !.pc = IF svc.pc = "preAuth" THEN "get" ELSE "retry",
                               !.gets[svc.idx] = @ + 1]
  /\ UNCHANGED <<handlerState, notService, now>>

\* the response of the first fetch of the current candidate
ServiceGetResponse(o) ==
  /\ pc = "service"
  /\ svc.pc = "get"
  /\ o \in ServiceGetOutcomes
  /\ LET sv == [svc EXCEPT !.first[svc.idx] = o]
     IN svc' =
          IF RetriesOn(o)
          THEN \* this.accessToken = null; await this.ensureValidToken()
               [sv EXCEPT !.pc = "reAuth", !.accessToken = NullTok,
                          !.exchanges = @ + 1, !.reauths[svc.idx] = @ + 1]
          ELSE LoopStep([sv EXCEPT !.last = makeApiCall(FALSE, o)], o)
  /\ UNCHANGED <<handlerState, notService, now>>

\* the response of the second fetch: its body is returned whatever its status
ServiceRetryResponse(o) ==
  /\ pc = "service"
  /\ svc.pc = "retry"
  /\ o \in ServiceGetOutcomes
  /\ svc' = LoopStep([svc EXCEPT !.last = makeApiCall(TRUE, o)], o)
  /\ UNCHANGED <<handlerState, notService, now>>

NextService ==
  \/ ServiceStart
  \/ \E o \in ServiceAuthOutcomes, e \in ServiceExpiresInValues :
       ServiceAuthResponse(o, e)
  \/ \E o \in ServiceGetOutcomes : ServiceGetResponse(o)
  \/ \E o \in ServiceGetOutcomes : ServiceRetryResponse(o)

SpecService == InitService /\ [][NextService]_vars
\* ------------------------------------------------- one token exchange
\* the holders of a token cache: the three handler modules and the service
Holders == Impls \cup {"service"}
\* expires_in of the token response, in seconds
GivenExpiresIn == {120, 300, 600, 3600}

\* an empty cache whose holder v has issued a token exchange that will end
\* with outcome o and, when it answers with a token, expires_in = e
InitExchange ==
  /\ impl = "server"
  /\ manualToken = NullTok
  /\ credsOk = TRUE
  /\ started = TRUE
  /\ startupPending = FALSE
  /\ now \in {TickMs, 2 * TickMs}
  /\ accessToken = NullTok
  /\ tokenExpiry = NoExpiry
  /\ lastAuthError = "null"
  /\ exchanges = 0
  /\ pc = "exchange"
  /\ req = NoRequest
  /\ ea = NoCall
  /\ probe = [c \in Categories |-> ProbeOff]
  /\ plan = NoPlan
  /\ after401 = NoneTok
  /\ getTokens = {}
  /\ probed = NotProbed
  /\ response = NoResponse
  /\ reqs = NoRequests
  /\ svc = NoService
  /\ demo = NoDemo
  /\ xchg \in {[v |-> v, o |-> o, e |-> e, pc |-> "pending", tok |-> NullTok,
                 exp |-> NoExpiry, ok |-> FALSE] :
                v \in Holders, o \in AuthOutcomes, e \in GivenExpiresIn}
  /\ (xchg.v = "service") => xchg.o \in ServiceAuthOutcomes
  /\ upl = NoUpload
  /\ hc = NoHealth
  /\ cli = NoClient

\* the exchange completes and authenticate() writes the cache
ExchangeResponse ==
  /\ pc = "exchange"
  /\ xchg.pc = "pending"
  /\ xchg' =
       IF xchg.v = "service"
       THEN LET a == serviceAuthenticate(xchg.o, xchg.e, 1, xchg.tok, xchg.exp, now)
            IN [xchg EXCEPT !.pc = "done", !.tok = a.tok, !.exp = a.exp,
                            !.ok = ~a.threw]
       ELSE LET a == authenticate(xchg.v, xchg.o, xchg.e, 1, xchg.tok, xchg.exp,
                                  "null", now)
            IN [xchg EXCEPT !.pc = "done", !.tok = a.tok, !.exp = a.exp,
                            !.ok = a.ret]
  /\ UNCHANGED <<handlerState, reqs, svc, demo, hc, browser, now>>

NextExchange == ExchangeResponse

SpecExchange == InitExchange /\ [][NextExchange]_vars
\* ------------------------------------------------ the numbers of the demo data
\* req.query.period as the client sent it
QueryPeriods == {"absent", "abc", "0", "1", "7", "30", "69", "90", "-5"}

\* parseInt(req.query.period)
parseInt(q) ==
  CASE q = "0" -> [nan |-> FALSE, n |-> 0]
    [] q = "1" -> [nan |-> FALSE, n |-> 1]
    [] q = "7" -> [nan |-> FALSE, n |-> 7]
    [] q = "30" -> [nan |-> FALSE, n |-> 30]
    [] q = "69" -> [nan |-> FALSE, n |-> 69]
    [] q = "90" -> [nan |-> FALSE, n |-> 90]
    [] q = "-5" -> [nan |-> FALSE, n |-> -5]
    [] q = "40" -> [nan |-> FALSE, n |-> 40]
    [] q = "50" -> [nan |-> FALSE, n |-> 50]
    [] q = "100" -> [nan |-> FALSE, n |-> 100]
    [] q = "200" -> [nan |-> FALSE, n |-> 200]
    [] OTHER -> [nan |-> TRUE, n |-> 0]

\* const daysPeriod = parseInt(req.query.period) || 30
daysPeriod(q) ==
  IF parseInt(q).nan \/ parseInt(q).n = 0 THEN 30 ELSE parseInt(q).n

\* the products baseline * (period / 30) that double arithmetic puts just below
\* their exact integer value (69 / 30 is rounded down to the nearest double)
RoundsBelow == {<<50000, 69>>, <<48500, 69>>, <<1500, 69>>}

\* rounding to the nearest integer instead of down
Scaled_Rounded(b, p) == (b * p + 15) \div 30

\* Math.floor(b * baseMultiplier) with baseMultiplier = daysPeriod / 30
Scaled(b, p) == (b * p) \div 30 - (IF <<b, p>> \in RoundsBelow THEN 1 ELSE 0)

\* the local calendar day of new Date(), as a day number
Today == 1000
\* the local hour of the call
Hours == {1, 12, 19}
\* hours the local clock is ahead of UTC, before and after the last change of
\* the offset
Zones == {<<0, 0>>, <<1, 2>>, <<-5, -4>>}
\* days since the offset changed
ChangeAgo == {3, 400}
\* Math.random() in thousandths
RandomPerMille == {0, 1, 999}

getTimezoneOffset(env, d) == IF d < Today - env.ago THEN env.zone[1] ELSE env.zone[2]

\* date.toISOString().split('T')[0] for the local day d at the local hour of
\* the call, as a day number: the UTC calendar day of that instant
isoDate(env, d) == d + ((env.hour - getTimezoneOffset(env, d)) \div 24)

\* one entry of trends, i days back; opens and clicks are kept in thirtieths
\* (Math.floor(Math.random() * 1000 + 500) * daysPeriod / 30)
trendEntry(per, env, rnd, i) ==
  [date |-> isoDate(env, Today - i),
   opens30 |-> (rnd[1 + (i % 2)] + 500) * per,
   clicks30 |-> ((rnd[2 - (i % 2)] * 200) \div 1000 + 100) * per]

\* for (let i = daysPeriod - 1; i >= 0; i--) trends.push(...)
trends(per, env, rnd) ==
  [j \in 1..(IF per > 0 THEN per ELSE 0) |-> trendEntry(per, env, rnd, per - j)]

\* clicked left at its 30-day value
overview_ClickedUnscaled(per) ==
  [totalSent |-> Scaled(50000, per), delivered |-> Scaled(48500, per),
   opened |-> Scaled(14550, per), clicked |-> 2180,
   bounced |-> Scaled(1500, per)]

overview(per) ==
  [totalSent |-> Scaled(50000, per), delivered |-> Scaled(48500, per),
   opened |-> Scaled(14550, per), clicked |-> Scaled(2180, per),
   bounced |-> Scaled(1500, per)]

\* a dashboard request whose payload is built from generateDemoData: the
\* query string, the clock and time zone of the process, the random numbers
InitDemo ==
  /\ impl = "server"
  /\ manualToken = NullTok
  /\ credsOk = TRUE
  /\ started = TRUE
  /\ startupPending = FALSE
  /\ now = 0
  /\ accessToken = NullTok
  /\ tokenExpiry = NoExpiry
  /\ lastAuthError = "null"
  /\ exchanges = 0
  /\ pc = "demo"
  /\ req = NoRequest
  /\ ea = NoCall
  /\ probe = [c \in Categories |-> ProbeOff]
  /\ plan = NoPlan
  /\ after401 = NoneTok
  /\ getTokens = {}
  /\ probed = NotProbed
  /\ response = NoResponse
  /\ reqs = NoRequests
  /\ svc = NoService
  /\ xchg = NoExchange
  /\ demo \in {[pc |-> "called", query |-> q,
                 env |-> [hour |-> h, zone |-> z, ago |-> a], rnd |-> r,
                 daysPeriod |-> 0, overview |-> <<>>, trends |-> <<>>] :
                q \in QueryPeriods, h \in Hours, z \in Zones, a \in ChangeAgo,
                r \in [1..2 -> RandomPerMille]}
  /\ upl = NoUpload
  /\ hc = NoHealth
  /\ cli = NoClient

\* generateDemoData(daysPeriod) returns
GenerateDemoData ==
  /\ pc = "demo"
  /\ demo.pc = "called"
  /\ LET per == daysPeriod(demo.query)
     IN demo' = [demo EXCEPT !.pc = "returned", !.daysPeriod = per,
                             !.overview = overview(per),
                             !.trends = trends(per, demo.env, demo.rnd)]
  /\ UNCHANGED <<handlerState, reqs, svc, xchg, hc, browser, now>>

NextDemo == GenerateDemoData

SpecDemo == InitDemo /\ [][NextDemo]_vars
\* ------------------------------------------------------ POST /api/upload
\* JS numbers: an integer or NaN
Num(n) == [nan |-> FALSE, n |-> n]
NaN == [nan |-> TRUE, n |-> 0]

\* req.body.csvData: undefined, '' or a text. A text is given by its lines,
\* each line by its cells; quote tells that a quoted field is never closed
NoCsv == [k |-> "undefined", lines |-> <<>>, quote |-> FALSE]
EmptyCsv == [k |-> "empty", lines |-> <<>>, quote |-> FALSE]
Text(lines) == [k |-> "text", lines |-> lines, quote |-> FALSE]

\* the result of a call: a value or an exception with its message
Returned(val) == [threw |-> FALSE, message |-> "", val |-> val]
Thrown(msg) == [threw |-> TRUE, message |-> msg, val |-> <<>>]

\* parse(csvData, {columns: true, skip_empty_lines: true, trim: true}) of
\* csv-parse/sync: empty lines are dropped, the first line names the columns,
\* every later line must have as many cells as the first and becomes an
\* object from column name to cell; a duplicated name keeps its last cell
parse(csv) ==
  LET rows == SelectSeq(csv.lines, LAMBDA l : l # <<>>)
  IN IF csv.quote THEN Thrown("Quote Not Closed")
     ELSE IF rows = <<>> THEN Returned(<<>>)
     ELSE LET header == rows[1]
              names == {header[j] : j \in 1..Len(header)}
              col(n) == CHOOSE j \in 1..Len(header) :
                          /\ header[j] = n
                          /\ \A l \in (j + 1)..Len(header) : header[l] # n
          IN IF \E i \in 2..Len(rows) : Len(rows[i]) # Len(header)
             THEN Thrown("Invalid Record Length")
             ELSE Returned([i \in 1..(Len(rows) - 1) |->
                              [n \in names |-> rows[i + 1][col(n)]]])

\* record[a] || record[b] || ...: the first cell that is present and not ''
Has(record, n) == n \in DOMAIN record /\ record[n] # ""
FirstOf(record, names) ==
  IF \E i \in 1..Len(names) : Has(record, names[i])
  THEN record[names[CHOOSE i \in 1..Len(names) :
                      /\ Has(record, names[i])
                      /\ \A j \in 1..(i - 1) : ~Has(record, names[j])]]
  ELSE ""
\* parseInt(record[a] || record[b] || dflt) with a number dflt
IntOf(record, names, dflt) ==
  IF FirstOf(record, names) # "" THEN parseInt(FirstOf(record, names)) ELSE dflt
\* record[a] || record[b] || `prefix${index + 1}`
TextOf(record, names, prefix, index) ==
  IF FirstOf(record, names) # ""
  THEN [k |-> "given", s |-> FirstOf(record, names), n |-> 0]
  ELSE [k |-> prefix, s |-> "", n |-> index]

processCampaignData(records) ==
  [i \in 1..Len(records) |->
     LET record == records[i]
         sent == IntOf(record, <<"Sent", "Total Sent", "Recipients">>, Num(0))
     IN [id |-> TextOf(record, <<"Job ID", "Send ID">>, "upload_", i),
         name |-> TextOf(record, <<"Campaign Name", "Email Name", "Subject">>,
                         "Campaign ", i),
         date |-> TextOf(record, <<"Send Date", "Date Sent">>, "now", 0),
         status |-> TextOf(record, <<"Status">>, "Completed", 0),
         sent |-> sent,
         opened |-> IntOf(record, <<"Opened", "Total Opens", "Unique Opens">>, Num(0)),
         clicked |-> IntOf(record, <<"Clicked", "Total Clicks", "Unique Clicks">>, Num(0)),
         delivered |-> IntOf(record, <<"Delivered", "Total Delivered">>, sent),
         bounced |-> IntOf(record, <<"Bounced", "Total Bounces">>, Num(0))]]

\* a += b of JS numbers
Plus(a, b) == IF a.nan \/ b.nan THEN NaN ELSE Num(a.n + b.n)
RECURSIVE SumOver(_, _, _)
\* the sum of the numbers f(records[1]) .. f(records[n]), starting from 0
SumOver(records, f(_), n) ==
  IF n = 0 THEN Num(0) ELSE Plus(SumOver(records, f, n - 1), f(records[n]))

\* eventType.toLowerCase().includes('open') / includes('click')
EventKinds ==
  [open |-> {"open", "Open", "EmailOpen"}, click |-> {"click", "Click", "LinkClick"}]
eventKind(record) ==
  LET eventType == IF FirstOf(record, <<"Event Type", "Type">>) # ""
                   THEN FirstOf(record, <<"Event Type", "Type">>) ELSE "open"
  IN IF eventType \in EventKinds.open THEN "open"
     ELSE IF eventType \in EventKinds.click THEN "click" ELSE "other"

\* the events are counted by kind, and by date in the order the dates appear
processTrackingData(records) ==
  LET dateOf(i) == TextOf(records[i], <<"Date", "Event Date">>, "today", 0)
      firsts == SelectSeq([i \in 1..Len(records) |-> i],
                          LAMBDA i : \A j \in 1..(i - 1) : dateOf(j) # dateOf(i))
      count(kind, d) ==
        Cardinality({i \in 1..Len(records) :
                       eventKind(records[i]) = kind /\ (d = 0 \/ dateOf(i) = dateOf(d))})
  IN [totalSent |-> Num(0), delivered |-> Num(0),
      opened |-> Num(count("open", 0)), clicked |-> Num(count("click", 0)),
      bounced |-> Num(0),
      trends |-> [g \in 1..Len(firsts) |->
                    [date |-> dateOf(firsts[g]),
                     opens |-> count("open", firsts[g]),
                     clicks |-> count("click", firsts[g])]]]

processSendData(records) ==
  LET sent(r) == IntOf(r, <<"Sent", "Total Sent">>, Num(0))
      delivered(r) == IntOf(r, <<"Delivered", "Total Delivered">>, Num(0))
      bounced(r) == IntOf(r, <<"Bounced", "Total Bounces">>, Num(0))
  IN [totalSent |-> SumOver(records, sent, Len(records)),
      delivered |-> SumOver(records, delivered, Len(records)),
      bounced |-> SumOver(records, bounced, Len(records))]

\* f.includes('campaign') || f.includes('email') || f.includes('subject') and
\* f.includes('event') || f.includes('open') || f.includes('click') over the
\* lower-cased column names the model uses
CampaignLike == {"Campaign Name", "Email Name", "Subject"}
TrackingLike ==
  {"Event Type", "Event Date", "Opened", "Total Opens", "Unique Opens", "Clicked",
   "Total Clicks", "Unique Clicks"}

\* the processed data as res.json sends it: k names its shape
Processed(k, campaigns, totals) == [k |-> k, campaigns |-> campaigns, totals |-> totals]
\* the tracking test placed before the campaign test
autoDetectAndProcess_TrackingFirst(records) ==
  IF Len(records) = 0 THEN Processed("error", <<>>, <<>>)
  ELSE IF DOMAIN records[1] \cap TrackingLike # {}
       THEN Processed("tracking", <<>>, processTrackingData(records))
  ELSE Processed("campaigns", processCampaignData(records), <<>>)

autoDetectAndProcess(records) ==
  IF Len(records) = 0 THEN Processed("error", <<>>, <<>>)
  ELSE IF DOMAIN records[1] \cap CampaignLike # {}
       THEN Processed("campaigns", processCampaignData(records), <<>>)
  ELSE IF DOMAIN records[1] \cap TrackingLike # {}
       THEN Processed("tracking", <<>>, processTrackingData(records))
  ELSE Processed("campaigns", processCampaignData(records), <<>>)

DataTypes == {"campaigns", "tracking", "sends", "other"}

\* what the upload handler sends: the status and the fields of the JSON body;
\* details = "absent" when the body has no details field
UploadResponse(status, success, error, details, data, recordCount) ==
  [status |-> status, success |-> success, error |-> error, details |-> details,
   data |-> data, recordCount |-> recordCount]
NoData == Processed("none", <<>>, <<>>)

\* the handler of api/upload.js for one request
handler(method, csvData, dataType) ==
  IF method = "OPTIONS" THEN UploadResponse(200, FALSE, "absent", "absent", NoData, 0)
  ELSE IF method # "POST"
  THEN UploadResponse(405, FALSE, "Method not allowed", "absent", NoData, 0)
  ELSE IF csvData.k # "text"
  THEN UploadResponse(400, FALSE, "No CSV data provided", "absent", NoData, 0)
  ELSE LET parsed == parse(csvData)
           records == parsed.val
       IN IF parsed.threw
          THEN UploadResponse(400, FALSE, "Failed to process CSV data",
                              parsed.message, NoData, 0)
          ELSE UploadResponse(200, TRUE, "absent", "absent",
                 CASE dataType = "campaigns" ->
                        Processed("array", processCampaignData(records), <<>>)
                   [] dataType = "tracking" ->
                        Processed("aggregated", <<>>, processTrackingData(records))
                   [] dataType = "sends" ->
                        Processed("totals", <<>>, processSendData(records))
                   [] OTHER -> autoDetectAndProcess(records),
                 Len(records))

\* ------------------------------------- the upload panel and App's merge
\* a number after JSON.stringify and JSON.parse: NaN arrives as null
JsonNumber(x) == IF x.nan THEN [k |-> "null", n |-> 0] ELSE [k |-> "num", n |-> x.n]
JsonCampaigns(campaigns) ==
  [i \in 1..Len(campaigns) |->
     [campaigns[i] EXCEPT !.sent = JsonNumber(@), !.opened = JsonNumber(@),
                          !.clicked = JsonNumber(@), !.delivered = JsonNumber(@),
                          !.bounced = JsonNumber(@)]]
\* x || 0 of a received number
OrZero(x) == IF x.k = "num" THEN x.n ELSE 0
\* parseInt(s) || 0 of a form field
IntOrZero(str) == IF parseInt(str).nan THEN 0 ELSE parseInt(str).n

RECURSIVE Total(_, _, _)
\* campaigns.reduce((acc, campaign) => acc + f(campaign), 0) over the first n
Total(campaigns, f(_), n) ==
  IF n = 0 THEN 0 ELSE Total(campaigns, f, n - 1) + f(campaigns[n])

ZeroOverview == [totalSent |-> 0, delivered |-> 0, opened |-> 0, clicked |-> 0, bounced |-> 0]
\* what the panel hands to onDataUploaded; hasOverview tells whether the
\* overview field is set
Uploaded(campaigns, hasOverview, ov, status) ==
  [campaigns |-> campaigns, hasOverview |-> hasOverview, overview |-> ov,
   isRealData |-> TRUE, connectionStatus |-> status, sfmcConnected |-> TRUE]
NothingUploaded == Uploaded(<<>>, FALSE, ZeroOverview, "none")

\* result.data.campaigns of the parsed response body
ResultCampaigns(res) ==
  IF res.data.k = "campaigns"
  THEN [defined |-> TRUE, list |-> JsonCampaigns(res.data.campaigns)]
  ELSE [defined |-> FALSE, list |-> <<>>]

\* handleFileSelect after a success response: the dashboard data it builds
csvDashboardData(res) ==
  LET rc == ResultCampaigns(res)
      n == Len(rc.list)
      sent(c) == OrZero(c.sent)
      delivered(c) == IF OrZero(c.delivered) # 0 THEN OrZero(c.delivered) ELSE OrZero(c.sent)
      opened(c) == OrZero(c.opened)
      clicked(c) == OrZero(c.clicked)
      bounced(c) == OrZero(c.bounced)
  IN Uploaded(rc.list, rc.defined,
              IF rc.defined
              THEN [totalSent |-> Total(rc.list, sent, n),
                    delivered |-> Total(rc.list, delivered, n),
                    opened |-> Total(rc.list, opened, n),
                    clicked |-> Total(rc.list, clicked, n),
                    bounced |-> Total(rc.list, bounced, n)]
              ELSE ZeroOverview,
              "Data imported from CSV")

\* manualCampaigns.filter(c => c.name && c.sent)
validCampaigns(manualCampaigns) ==
  SelectSeq(manualCampaigns, LAMBDA c : c.name # "" /\ c.sent # "")
\* submitManualData with at least one valid campaign
manualDashboardData(manualCampaigns) ==
  LET valid == validCampaigns(manualCampaigns)
      campaigns ==
        [i \in 1..Len(valid) |->
           [id |-> [k |-> "manual_", s |-> "", n |-> i],
            name |-> valid[i].name,
            date |-> valid[i].date,
            status |-> "Completed",
            sent |-> IntOrZero(valid[i].sent),
            opened |-> IntOrZero(valid[i].opened),
            clicked |-> IntOrZero(valid[i].clicked),
            delivered |-> IntOrZero(valid[i].sent),
            bounced |-> IntOrZero(valid[i].bounced)]]
      n == Len(campaigns)
      sent(c) == c.sent
      delivered(c) == c.delivered
      opened(c) == c.opened
      clicked(c) == c.clicked
      bounced(c) == c.bounced
  IN Uploaded(campaigns, TRUE,
              [totalSent |-> Total(campaigns, sent, n),
               delivered |-> Total(campaigns, delivered, n),
               opened |-> Total(campaigns, opened, n),
               clicked |-> Total(campaigns, clicked, n),
               bounced |-> Total(campaigns, bounced, n)],
              "Manual data entry")

\* App's data state: null, or the payload of the last load
NullData ==
  [k |-> "null", overview |-> ZeroOverview, trends |-> <<>>, campaigns |-> <<>>,
   isRealData |-> FALSE, connectionStatus |-> "none", sfmcConnected |-> FALSE]
\* handleDataUploaded(uploadedData) with App's data: the merged data
handleDataUploaded(uploadedData, data) ==
  [k |-> "payload",
   overview |-> IF uploadedData.hasOverview THEN uploadedData.overview
                ELSE IF data.k # "null" THEN data.overview ELSE ZeroOverview,
   trends |-> IF data.k # "null" THEN data.trends ELSE <<>>,
   campaigns |-> uploadedData.campaigns,
   isRealData |-> TRUE,
   connectionStatus |-> uploadedData.connectionStatus,
   sfmcConnected |-> uploadedData.sfmcConnected]
\* uploadedData.connectionStatus?.includes('CSV') ? 'csv' : 'manual'
dataSourceOf(uploadedData) ==
  IF uploadedData.connectionStatus = "Data imported from CSV" THEN "csv" ELSE "manual"

\* the CSV texts the model uploads
TwoCampaigns ==
  Text(<< <<"Campaign Name", "Sent", "Opened">>, <<"A", "100", "40">>, <<>>,
          <<"B", "200", "50">> >>)
OtherNames == Text(<< <<"Email Name", "Total Sent", "Unique Opens">>, <<"A", "100", "40">> >>)
NotANumber == Text(<< <<"Campaign Name", "Sent", "Opened">>, <<"A", "abc", "40">> >>)
NoSentColumn == Text(<< <<"Campaign Name", "Opened">>, <<"A", "40">> >>)
Prose == Text(<< <<"hello world">> >>)
Ragged == Text(<< <<"Campaign Name", "Sent">>, <<"A", "100", "40">> >>)
Unclosed == [Text(<< <<"Campaign Name", "Sent">>, <<"A", "100">> >>) EXCEPT !.quote = TRUE]
Events ==
  Text(<< <<"Event Type", "Date">>, <<"Open", "d1">>, <<"LinkClick", "d1">>,
          <<"EmailOpen", "d2">>, <<"Bounce", "d2">> >>)
Plain == Text(<< <<"Job ID", "Sent">>, <<"7", "100">> >>)
CsvTexts ==
  {TwoCampaigns, OtherNames, NotANumber, NoSentColumn, Prose, Ragged, Unclosed, Events,
   Plain}

\* the rows of the manual entry form
FormRow(name, sent, opened) ==
  [name |-> name, sent |-> sent, opened |-> opened, clicked |-> "", bounced |-> "",
   date |-> "today"]
ManualForms ==
  {<<FormRow("A", "100", "40"), FormRow("B", "200", "50")>>,
   <<FormRow("", "100", "40")>>,
   <<FormRow("A", "abc", "40"), FormRow("", "", "")>>,
   <<FormRow("A", "100", "")>>}

\* App's data after a load that fell back to the demo data of 30 days
LoadedData ==
  [k |-> "payload", overview |-> overview(30), trends |-> <<>>,
   campaigns |-> <<[id |-> [k |-> "given", s |-> "1", n |-> 0]]>>,
   isRealData |-> FALSE, connectionStatus |-> "Authentication failed",
   sfmcConnected |-> FALSE]

NoUploadResponse == UploadResponse(0, FALSE, "absent", "absent", NoData, 0)
\* one use: a file dropped on the panel, the manual form, or a caller of the API
NewUpload(origin, csvName, method, csvData, dataType, net, form, data) ==
  [origin |-> origin, pc |-> "chosen", csvName |-> csvName, method |-> method,
   csvData |-> csvData, dataType |-> dataType, net |-> net, form |-> form,
   data |-> data, res |-> NoUploadResponse, uploaded |-> NothingUploaded,
   uploadStatus |-> "idle", errorMessage |-> "", dataSource |-> "api",
   mid |-> FALSE]

InitUpload ==
  /\ impl = "legacy"
  /\ manualToken \in {NullTok, ManualTok}
  /\ credsOk = TRUE
  /\ started = TRUE
  /\ startupPending = FALSE
  /\ now = 0
  /\ accessToken = manualToken
  /\ tokenExpiry = IF manualToken # NullTok THEN ManualTokenWindowMs ELSE NoExpiry
  /\ lastAuthError = "null"
  /\ exchanges = 0
  /\ pc = "upload"
  /\ req = NoRequest
  /\ ea = NoCall
  /\ probe = [c \in Categories |-> ProbeOff]
  /\ plan = NoPlan
  /\ after401 = NoneTok
  /\ getTokens = {}
  /\ probed = NotProbed
  /\ response = NoResponse
  /\ reqs = NoRequests
  /\ svc = NoService
  /\ xchg = NoExchange
  /\ demo = NoDemo
  /\ hc = NoHealth
  /\ cli = NoClient
  /\ upl \in
       {NewUpload("file", n, "POST", t, "campaigns", net, <<>>, d) :
          n \in BOOLEAN, t \in CsvTexts, net \in {"ok", "neterr"},
          d \in {NullData, LoadedData}}
       \cup {NewUpload("manual", TRUE, "none", NoCsv, "none", "ok", f, d) :
               f \in ManualForms, d \in {NullData, LoadedData}}
       \cup {NewUpload("api", TRUE, m, t, dt, "ok", <<>>, NullData) :
               m \in Methods, t \in CsvTexts \cup {NoCsv, EmptyCsv}, dt \in DataTypes}

\* handleFileSelect(file) up to the fetch of reader.onload
HandleFileSelect ==
  /\ pc = "upload"
  /\ upl.origin = "file" /\ upl.pc = "chosen"
  /\ upl' = IF ~upl.csvName
            THEN [upl EXCEPT !.pc = "done", !.errorMessage = "Please select a CSV file"]
            ELSE [upl EXCEPT !.pc = "posted", !.uploadStatus = "uploading"]
  /\ UNCHANGED <<handlerState, reqs, svc, xchg, demo, hc, cli, now>>

\* a caller sends its request to /api/upload
ApiRequest ==
  /\ pc = "upload"
  /\ upl.origin = "api" /\ upl.pc = "chosen"
  /\ upl' = [upl EXCEPT !.pc = "posted"]
  /\ UNCHANGED <<handlerState, reqs, svc, xchg, demo, hc, cli, now>>

\* the token cache of the module once the upload handler has run from the
\* cache (tok, exp, err): the handler assigns no module variable
CacheAfterUpload_Cleared(tok, exp, err) ==
  [accessToken |-> NullTok, tokenExpiry |-> NoExpiry, lastAuthError |-> err]

CacheAfterUpload(tok, exp, err) ==
  [accessToken |-> tok, tokenExpiry |-> exp, lastAuthError |-> err]

\* the handler of api/upload.js runs and answers
UploadHandler ==
  /\ pc = "upload"
  /\ upl.pc = "posted" /\ upl.net = "ok"
  /\ upl' = [upl EXCEPT !.pc = "answered",
                        !.res = handler(upl.method, upl.csvData, upl.dataType)]
  /\ LET after == CacheAfterUpload(accessToken, tokenExpiry, lastAuthError)
     IN /\ accessToken' = after.accessToken
        /\ tokenExpiry' = after.tokenExpiry
        /\ lastAuthError' = after.lastAuthError
  /\ UNCHANGED <<config, started, startupPending, exchanges, pc, req, ea, probe, plan,
                 after401, getTokens, probed, response>>
  /\ UNCHANGED <<reqs, svc, xchg, demo, hc, cli, now>>

\* the fetch of the panel rejects
FetchFails ==
  /\ pc = "upload"
  /\ upl.origin = "file" /\ upl.pc = "posted" /\ upl.net = "neterr"
  /\ upl' = [upl EXCEPT !.pc = "done", !.uploadStatus = "error",
                        !.errorMessage = "Failed to fetch"]
  /\ UNCHANGED <<handlerState, reqs, svc, xchg, demo, hc, cli, now>>

\* reader.onload after await response.json()
ReadResult ==
  /\ pc = "upload"
  /\ upl.origin = "file" /\ upl.pc = "answered"
  /\ upl' = IF upl.res.success
            THEN [upl EXCEPT !.pc = "timer", !.uploadStatus = "success",
                             !.uploaded = csvDashboardData(upl.res)]
            ELSE [upl EXCEPT !.pc = "done", !.uploadStatus = "error",
                             !.errorMessage = IF upl.res.error # "absent"
                                              THEN upl.res.error ELSE "Upload failed"]
  /\ UNCHANGED <<handlerState, reqs, svc, xchg, demo, hc, cli, now>>

\* submitManualData()
SubmitManualData ==
  /\ pc = "upload"
  /\ upl.origin = "manual" /\ upl.pc = "chosen"
  /\ upl' = IF Len(validCampaigns(upl.form)) = 0
            THEN [upl EXCEPT !.pc = "done",
                             !.errorMessage =
                               "Please add at least one campaign with name and sent count"]
            ELSE [upl EXCEPT !.pc = "timer", !.uploaded = manualDashboardData(upl.form)]
  /\ UNCHANGED <<handlerState, reqs, svc, xchg, demo, hc, cli, now>>

\* the timer of the panel fires: onDataUploaded(dashboardData)
HandleDataUploaded ==
  /\ pc = "upload"
  /\ upl.pc = "timer"
  /\ upl' = [upl EXCEPT !.pc = "done",
                        !.data = handleDataUploaded(upl.uploaded, upl.data),
                        !.dataSource = dataSourceOf(upl.uploaded)]
  /\ UNCHANGED <<handlerState, reqs, svc, xchg, demo, hc, cli, now>>

NextUpload ==
  \/ HandleFileSelect
  \/ ApiRequest
  \/ UploadHandler
  \/ FetchFails
  \/ ReadResult
  \/ SubmitManualData
  \/ HandleDataUploaded

SpecUpload == InitUpload /\ [][NextUpload]_vars

\* ------------------------- uploads beside the dashboard handler of the module
\* POST /api/upload arrives and is answered while the dashboard handler of
\* api/upload.js is idle or waits for an upstream answer; mid records which
UploadMeanwhile ==
  /\ pc # "upload"
  /\ upl = NoUpload
  /\ \E t \in {TwoCampaigns, Ragged} :
       upl' = [NewUpload("api", TRUE, "POST", t, "campaigns", "ok", <<>>, NullData)
                 EXCEPT !.pc = "answered", !.res = handler("POST", t, "campaigns"),
                        !.mid = (pc \notin {"idle", "done"})]
  /\ LET after == CacheAfterUpload(accessToken, tokenExpiry, lastAuthError)
     IN /\ accessToken' = after.accessToken
        /\ tokenExpiry' = after.tokenExpiry
        /\ lastAuthError' = after.lastAuthError
  /\ UNCHANGED <<config, started, startupPending, exchanges, pc, req, ea, probe, plan,
                 after401, getTokens, probed, response>>
  /\ UNCHANGED <<reqs, svc, xchg, demo, hc, cli, now>>

InitShared == Init /\ impl = "legacy"
\* the steps of the module api/upload.js: its dashboard handler and the upload
NextShared ==
  \/ Tick
  \/ \E m \in Methods : OtherMethod(m)
  \/ DashboardRequest
  \/ \E o \in AuthOutcomes, e \in ExpiresInValues : AuthResponse(o, e)
  \/ \E c \in Categories, o \in GetOutcomes : ProbeResponse(c, o)
  \/ UploadMeanwhile
SpecShared == InitShared /\ [][NextShared]_vars

\* ------------------------------------------------- GET /api/health (server.cjs)
\* a && b of JavaScript over the values the route handles: the left operand
\* when it is falsy, the right operand otherwise
JsAnd(a, b) == IF a \in {"false", "null", "undefined"} THEN a ELSE b

JsBool(b) == IF b THEN "true" ELSE "false"

\* !!accessToken
NotNot_Raw(tok) == IF Truthy(tok) THEN "true" ELSE tok.kind
NotNot(tok) == JsBool(Truthy(tok))

\* tokenExpiry as an operand: null or a Date
ExpiryValue(exp) == IF exp = NoExpiry THEN "null" ELSE "date"

\* !!accessToken && tokenExpiry && tokenExpiry.getTime() > Date.now()
healthAuthenticated(tok, exp, t) ==
  JsAnd(JsAnd(NotNot(tok), ExpiryValue(exp)), JsBool(exp > t))

\* the route answers in one synchronous step, whatever the dashboard handler
\* is waiting for; the timestamp of the answer is left out
HealthRequest ==
  /\ impl = "server"
  /\ started
  /\ hc' = [status |-> "ok",
            authenticated |-> healthAuthenticated(accessToken, tokenExpiry, now)]
  /\ UNCHANGED <<config, started, startupPending, now, cache, exchanges, pc, req, ea,
                 probe, plan, after401, getTokens, probed, response>>
  /\ UNCHANGED <<reqs, svc, xchg, demo, browser>>

InitHealth == Init /\ impl = "server"

\* answers of the upstream to a GET while health is asked: a rejection of the
\* token, no answer in time, an answer with items
HealthGetOutcomes == {"s401", "timeout", "okItems"}

NextHealth ==
  \/ Tick
  \/ Listen
  \/ \E o \in AuthOutcomes, e \in ExpiresInValues : StartupAuthResponse(o, e)
  \/ DashboardRequest
  \/ \E o \in AuthOutcomes, e \in ExpiresInValues : AuthResponse(o, e)
  \/ \E c \in Categories, o \in HealthGetOutcomes : ProbeResponse(c, o)
  \/ \E o \in HealthGetOutcomes : DefinitionsResponse(o)
  \/ HealthRequest

SpecHealth == InitHealth /\ [][NextHealth]_vars

\* ------------------------------------ sfmcService.getDashboardData (browser)
\* the two copies of the client: services/sfmcService.ts reads
\* process.env.NODE_ENV, the copy in part_002 reads import.meta.env.PROD
ClientVersions == {"ts", "part2"}

\* const period = selectedPeriod === '7days' ? 7 : selectedPeriod === '30days' ? 30 : 90
Selections == {"7days", "30days", "90days"}
periodOf(sel) == IF sel = "7days" THEN 7 ELSE IF sel = "30days" THEN 30 ELSE 90

\* how axios.get(apiUrl, {params, timeout: 30000}) settles
AxiosFailures == {"neterr", "timeout", "non2xx"}
AxiosOutcomes == AxiosFailures \cup {"ok2xx"}

\* error.message of what axios.get rejects with
axiosMessage(o) ==
  CASE o = "neterr" -> "Network Error"
    [] o = "timeout" -> "timeout of 30000ms exceeded"
    [] OTHER -> "Request failed with status code 500"

\* response.data of a 2xx answer: a payload of the backend or an empty body
BackendBodies ==
  {[k |-> "payload", isRealData |-> b] : b \in BOOLEAN} \cup {[k |-> "emptyStr"]}

\* days before today that a Date can still hold; beyond it date.setDate gives
\* an invalid Date and toISOString throws a RangeError
DateRangeDays == 100000000

\* the clock of the browser and the random numbers of one call
ClientEnvs ==
  {[hour |-> 12, zone |-> <<0, 0>>, ago |-> 400],
   [hour |-> 19, zone |-> <<-5, -4>>, ago |-> 3]}
ClientRandom == <<0, 999>>

\* getDemoData(daysPeriod, error): trends, five campaigns and the overview,
\* all scaled by daysPeriod / 30
getDemoData(per, error, env) ==
  IF per - 1 > DateRangeDays
  THEN Thrown("Invalid time value")
  ELSE Returned([k |-> "payload", overview |-> overview(per),
                 trends |-> trends(per, env, ClientRandom), campaigns |-> 5,
                 isRealData |-> FALSE, error |-> error])

\* how the promise of an async function settles
Resolved(value) == [settled |-> "resolved", value |-> value]
RejectedWith(msg) == [settled |-> "rejected", value |-> msg]

\* the catch block rethrows
onCatch_Rethrown(per, msg, env) == RejectedWith(msg)

\* catch (error): return this.getDemoData(daysPeriod, `Backend API error:
\* ${error.message}`); the message is kept as the two parts of the template
onCatch(per, msg, env) ==
  LET d == getDemoData(per, <<"Backend API error: ", msg>>, env)
  IN IF d.threw THEN RejectedWith(d.message) ELSE Resolved(d.val)

\* the try block up to the await: in services/sfmcService.ts the read of
\* process.env throws a ReferenceError where the build defines no process
beforeAwait(ver, processDefined) ==
  IF ver = "ts" /\ ~processDefined THEN Thrown("process is not defined") ELSE Returned(<<>>)

\* the rest of getDashboardData once axios.get has settled with o and body
afterAwait(per, o, body, env) ==
  IF o \in AxiosFailures THEN onCatch(per, axiosMessage(o), env) ELSE Resolved(body)

NoResult == [settled |-> "none", value |-> <<>>]

InitClient ==
  /\ impl = "server" /\ manualToken = NullTok /\ credsOk = FALSE
  /\ started = FALSE /\ startupPending = FALSE
  /\ now = 0
  /\ accessToken = NullTok
  /\ tokenExpiry = NoExpiry
  /\ lastAuthError = "null"
  /\ exchanges = 0
  /\ pc = "client"
  /\ req = NoRequest
  /\ ea = NoCall
  /\ probe = [c \in Categories |-> ProbeOff]
  /\ plan = NoPlan
  /\ after401 = NoneTok
  /\ getTokens = {}
  /\ probed = NotProbed
  /\ response = NoResponse
  /\ reqs = NoRequests /\ svc = NoService /\ xchg = NoExchange /\ demo = NoDemo
  /\ upl = NoUpload /\ hc = NoHealth
  /\ \E ver \in ClientVersions, pd \in BOOLEAN, env \in ClientEnvs :
       /\ ver = "part2" => pd
       /\ cli = [ver |-> ver, processDefined |-> pd, env |-> env,
                 selectedPeriod |-> "30days", pc |-> "idle", period |-> 0,
                 outcome |-> "none", result |-> NoResult]

notClient == <<handlerState, now, reqs, svc, xchg, demo, hc, upl>>

\* onChange of the period selector: setSelectedPeriod(e.target.value)
SetSelectedPeriod(sel) ==
  /\ cli.pc # "awaiting"
  /\ sel # cli.selectedPeriod
  /\ cli' = [cli EXCEPT !.selectedPeriod = sel]
  /\ UNCHANGED notClient

\* loadData of App: getDashboardData(period) runs up to its await
LoadData ==
  /\ cli.pc # "awaiting"
  /\ LET per == periodOf(cli.selectedPeriod)
         b == beforeAwait(cli.ver, cli.processDefined)
     IN cli' = IF b.threw
               THEN [cli EXCEPT !.pc = "settled", !.period = per, !.outcome = "threw",
                                !.result = onCatch(per, b.message, cli.env)]
               ELSE [cli EXCEPT !.pc = "awaiting", !.period = per, !.outcome = "none",
                                !.result = NoResult]
  /\ UNCHANGED notClient

\* axios.get settles and getDashboardData runs to its end
AxiosSettles(o, body) ==
  /\ cli.pc = "awaiting"
  /\ cli' = [cli EXCEPT !.pc = "settled", !.outcome = o,
                        !.result = afterAwait(cli.period, o, body, cli.env)]
  /\ UNCHANGED notClient

NextClient ==
  \/ \E sel \in Selections : SetSelectedPeriod(sel)
  \/ LoadData
  \/ \E o \in AxiosOutcomes, body \in BackendBodies : AxiosSettles(o, body)

SpecClient == InitClient /\ [][NextClient]_vars

\* ------------------------------------ DebugSFMCService.getDashboardData
\* the two probes started by Promise.allSettled
Probes == {"sends", "tracking"}
\* answers of the upstream the concurrent run is given
DualAuthOutcomes == {"non2xx", "okToken", "okNoToken"}
DualGetOutcomes == {"s401", "s500", "okItems", "okEmptyItems", "okJsonText"}
ProbeIdle == [pc |-> "off", idx |-> 0]

\* the payloads of getDashboardData: the one of the try block, from what
\* getEmailSends resolved with, and the one of the catch block
servicePayload(real) ==
  [isRealData |-> real, connectionStatus |-> IF real THEN "connected" ELSE "demo",
   sfmcConnected |-> TRUE]
serviceErrorPayload ==
  [isRealData |-> FALSE, connectionStatus |-> "error", sfmcConnected |-> FALSE]

\* getDashboardData after the first ensureValidToken threw or not and, if
\* not, getEmailSends resolved with value: items or an array of them, a
\* string (slice(0, 10).forEach is then not a function and the catch block
\* answers), or []
serviceResult(threw, value) ==
  IF threw \/ value = "string"
  THEN Resolved(serviceErrorPayload)
  ELSE Resolved(servicePayload(value \in {"items", "array"}))

\* the instance with its cache, the position of getDashboardData, the two
\* probes, what getEmailSends resolved with, the kinds of token the requests
\* carried, whether one was sent while the other probe was re-authenticating
\* after a 401, and the result
NewDual(tok, exp) ==
  [accessToken |-> tok, tokenExpiry |-> exp, exchanges |-> 0, phase |-> "start",
   p |-> [c \in Probes |-> ProbeIdle], sends |-> "none", authThrew |-> FALSE,
   carried |-> {}, during |-> FALSE, result |-> NoResult]

InitDual ==
  /\ impl = "server"
  /\ manualToken = NullTok
  /\ credsOk = TRUE
  /\ started = TRUE
  /\ startupPending = FALSE
  /\ now = TickMs
  /\ accessToken = NullTok
  /\ tokenExpiry = NoExpiry
  /\ lastAuthError = "null"
  /\ exchanges = 0
  /\ pc = "dual"
  /\ req = NoRequest
  /\ ea = NoCall
  /\ probe = [c \in Categories |-> ProbeOff]
  /\ plan = NoPlan
  /\ after401 = NoneTok
  /\ getTokens = {}
  /\ probed = NotProbed
  /\ response = NoResponse
  /\ reqs = NoRequests
  /\ svc \in {NewDual(NullTok, NoExpiry), NewDual(OAuthTok(0), 2 * TickMs)}
  /\ xchg = NoExchange
  /\ demo = NoDemo
  /\ upl = NoUpload
  /\ hc = NoHealth
  /\ cli = NoClient

\* a probe is about to go on after an await whose promise is already
\* resolved: the continuation is a job of the microtask queue, which the
\* event loop empties before it delivers the next response
MicrotaskPending(sv) == \E c \in Probes : sv.p[c].pc \in {"checked", "rechecked"}

\* makeApiCall without its await this.ensureValidToken()
BeginCall_Unchecked(sv, c, i) ==
  IF i > NumCandidates
  THEN [sv EXCEPT !.p[c] = [pc |-> "done", idx |-> 0],
                  !.sends = IF c = "sends" THEN "empty" ELSE @]
  ELSE [sv EXCEPT !.p[c] = [pc |-> "checked", idx |-> i]]

\* probe c calls makeApiCall for its candidate i: ensureValidToken tests the
\* cache and either starts a token exchange or returns, after which
\* makeApiCall waits for its turn to go on; past the last candidate the
\* probe returns
BeginCall(sv, c, i) ==
  IF i > NumCandidates
  THEN [sv EXCEPT !.p[c] = [pc |-> "done", idx |-> 0],
                  !.sends = IF c = "sends" THEN "empty" ELSE @]
  ELSE IF TokenInvalid(sv.accessToken, sv.tokenExpiry, now)
  THEN [sv EXCEPT !.p[c] = [pc |-> "preAuth", idx |-> i], !.exchanges = @ + 1]
  ELSE [sv EXCEPT !.p[c] = [pc |-> "checked", idx |-> i]]

\* the loop of probe c once makeApiCall has settled for the current candidate
AfterCall(sv, c, settled) ==
  IF c = "sends" /\ settled.settled = "resolved" /\ LoopReturns(settled.from)
  THEN [sv EXCEPT !.p[c] = [pc |-> "done", idx |-> 0],
                  !.sends = CASE settled.from = "okItems" -> "items"
                              [] settled.from = "okArray" -> "array"
                              [] OTHER -> "string"]
  ELSE BeginCall(sv, c, sv.p[c].idx + 1)

\* Promise.allSettled has both results: getDashboardData runs to its end
Finish(sv) ==
  IF \A c \in Probes : sv.p[c].pc = "done"
  THEN [sv EXCEPT !.phase = "done", !.result = serviceResult(FALSE, sv.sends)]
  ELSE sv

\* getDashboardData up to its first await: ensureValidToken
DualStart ==
  /\ pc = "dual" /\ svc.phase = "start"
  /\ svc' = IF TokenInvalid(svc.accessToken, svc.tokenExpiry, now)
            THEN [svc EXCEPT !.phase = "auth", !.exchanges = @ + 1]
            ELSE [svc EXCEPT !.phase = "ready"]
  /\ UNCHANGED <<handlerState, notService, now>>

\* the token exchange of the first ensureValidToken completes
DualAuthResponse(o, e) ==
  /\ pc = "dual" /\ svc.phase = "auth"
  /\ LET a == serviceAuthenticate(o, e, svc.exchanges, svc.accessToken,
                                  svc.tokenExpiry, now)
         sv == [svc EXCEPT !.accessToken = a.tok, !.tokenExpiry = a.exp]
     IN svc' = IF a.threw
               THEN [sv EXCEPT !.phase = "done", !.authThrew = TRUE,
                               !.result = serviceResult(TRUE, "none")]
               ELSE [sv EXCEPT !.phase = "ready"]
  /\ UNCHANGED <<handlerState, notService, now>>

\* getDashboardData goes on after its await: getEmailSends and
\* getTrackingData each run to their first await
DualProbesStart ==
  /\ pc = "dual" /\ svc.phase = "ready"
  /\ svc' = BeginCall(BeginCall([svc EXCEPT !.phase = "probing"], "sends", 1),
                      "tracking", 1)
  /\ UNCHANGED <<handlerState, notService, now>>

\* a token exchange issued by ensureValidToken inside makeApiCall of probe c
\* completes: before the fetch, or after a 401
DualProbeAuthResponse(c, o, e) ==
  /\ pc = "dual" /\ svc.phase = "probing"
  /\ ~MicrotaskPending(svc)
  /\ svc.p[c].pc \in {"preAuth", "reAuth"}
  /\ LET a == serviceAuthenticate(o, e, svc.exchanges, svc.accessToken,
                                  svc.tokenExpiry, now)
         sv == [svc EXCEPT !.accessToken = a.tok, !.tokenExpiry = a.exp]
     IN svc' = IF a.threw
               THEN Finish(AfterCall(sv, c, [settled |-> "rejected", from |-> "auth"]))
               ELSE [sv EXCEPT !.p[c].pc = IF svc.p[c].pc = "preAuth"
                                           THEN "checked" ELSE "rechecked"]
  /\ UNCHANGED <<handlerState, notService, now>>

\* makeApiCall of probe c goes on after await this.ensureValidToken(): it
\* reads this.accessToken into the Authorization header and calls fetch
DualSend(c) ==
  /\ pc = "dual" /\ svc.phase = "probing"
  /\ svc.p[c].pc \in {"checked", "rechecked"}
  /\ svc' = [svc EXCEPT !.p[c].pc = IF svc.p[c].pc = "checked" THEN "get" ELSE "retry",
                        !.carried = @ \cup {svc.accessToken.kind},
                        !.during = @ \/ \E d \in Probes \ {c} : svc.p[d].pc = "reAuth"]
  /\ UNCHANGED <<handlerState, notService, now>>

\* the first fetch of probe c is answered
DualGetResponse(c, o) ==
  /\ pc = "dual" /\ svc.phase = "probing"
  /\ ~MicrotaskPending(svc)
  /\ svc.p[c].pc = "get"
  /\ svc' = IF RetriesOn(o)
            THEN \* this.accessToken = null; await this.ensureValidToken()
                 [svc EXCEPT !.accessToken = NullTok, !.exchanges = @ + 1,
                             !.p[c].pc = "reAuth"]
            ELSE Finish(AfterCall(svc, c, makeApiCall(FALSE, o)))
  /\ UNCHANGED <<handlerState, notService, now>>

\* the second fetch of probe c is answered
DualRetryResponse(c, o) ==
  /\ pc = "dual" /\ svc.phase = "probing"
  /\ ~MicrotaskPending(svc)
  /\ svc.p[c].pc = "retry"
  /\ svc' = Finish(AfterCall(svc, c, makeApiCall(TRUE, o)))
  /\ UNCHANGED <<handlerState, notService, now>>

NextDual ==
  \/ DualStart
  \/ \E o \in DualAuthOutcomes, e \in ServiceExpiresInValues : DualAuthResponse(o, e)
  \/ DualProbesStart
  \/ \E c \in Probes, o \in DualAuthOutcomes, e \in ServiceExpiresInValues :
       DualProbeAuthResponse(c, o, e)
  \/ \E c \in Probes : DualSend(c)
  \/ \E c \in Probes, o \in DualGetOutcomes : DualGetResponse(c, o)
  \/ \E c \in Probes, o \in DualGetOutcomes : DualRetryResponse(c, o)

SpecDual == InitDual /\ [][NextDual]_vars

\* --------------------------------------------------------- App (App.tsx)
\* how a call of sfmcService.getDashboardData ends for App: with a payload of
\* live data, with a payload of demo data, or rejected
LoadOutcomes == {"live", "demo", "rejected"}
\* what the upload panel hands over: the CSV import and the manual form both
\* pass campaigns, with connectionStatus 'Data imported from CSV' and
\* 'Manual data entry'
UploadStatuses == {"Data imported from CSV", "Manual data entry"}
NoAppData == [origin |-> "none", period |-> 0]

\* the state of the component before it is mounted; loads holds the periods
\* of the loadDashboardData calls that are waiting for the service
NewApp ==
  [mounted |-> FALSE, selectedPeriod |-> "30days", data |-> NoAppData,
   dataSource |-> "api", isConnected |-> FALSE, loads |-> <<>>]

InitApp ==
  /\ impl = "server"
  /\ manualToken = NullTok
  /\ credsOk = FALSE
  /\ started = FALSE
  /\ startupPending = FALSE
  /\ now = 0
  /\ accessToken = NullTok
  /\ tokenExpiry = NoExpiry
  /\ lastAuthError = "null"
  /\ exchanges = 0
  /\ pc = "app"
  /\ req = NoRequest
  /\ ea = NoCall
  /\ probe = [c \in Categories |-> ProbeOff]
  /\ plan = NoPlan
  /\ after401 = NoneTok
  /\ getTokens = {}
  /\ probed = NotProbed
  /\ response = NoResponse
  /\ reqs = NoRequests
  /\ svc = NoService
  /\ xchg = NoExchange
  /\ demo = NoDemo
  /\ upl = NoUpload
  /\ hc = NoHealth
  /\ cli = NewApp

\* loadDashboardData up to its await: the period of the current selection
loadDashboardData(app) ==
  [app EXCEPT !.loads = Append(@, periodOf(app.selectedPeriod))]

\* the first run of the effect: loadDashboardData() and setInterval
AppMount ==
  /\ pc = "app"
  /\ ~cli.mounted
  /\ cli' = loadDashboardData([cli EXCEPT !.mounted = TRUE])
  /\ UNCHANGED notClient

\* the interval of 15 minutes fires: loadDashboardData(false)
AppAutoRefresh ==
  /\ pc = "app"
  /\ cli.mounted
  /\ Len(cli.loads) < NumRequests
  /\ cli' = loadDashboardData(cli)
  /\ UNCHANGED notClient

\* handleRefresh, from the button of the rendered dashboard
AppHandleRefresh ==
  /\ pc = "app"
  /\ cli.data # NoAppData
  /\ Len(cli.loads) < NumRequests
  /\ cli' = loadDashboardData(cli)
  /\ UNCHANGED notClient

\* the period selector changes selectedPeriod and the effect runs again
AppSetSelectedPeriod(sel) ==
  /\ pc = "app"
  /\ cli.data # NoAppData
  /\ sel # cli.selectedPeriod
  /\ Len(cli.loads) < NumRequests
  /\ cli' = loadDashboardData([cli EXCEPT !.selectedPeriod = sel])
  /\ UNCHANGED notClient

\* the service settles call i and loadDashboardData runs to its end:
\* setData(dashboardData), setIsConnected(sfmcConnected || isRealData); the
\* catch block sets the error and setIsConnected(false)
AppLoadSettles(i, o) ==
  /\ pc = "app"
  /\ i \in DOMAIN cli.loads
  /\ LET rest == [j \in 1..(Len(cli.loads) - 1) |->
                    IF j < i THEN cli.loads[j] ELSE cli.loads[j + 1]]
     IN cli' = IF o = "rejected"
               THEN [cli EXCEPT !.loads = rest, !.isConnected = FALSE]
               ELSE [cli EXCEPT !.loads = rest,
                                !.data = [origin |-> "api", period |-> cli.loads[i]],
                                !.isConnected = (o = "live")]
  /\ UNCHANGED notClient

\* handleDataUploaded(uploadedData), called by the upload panel of the
\* rendered dashboard
AppHandleDataUploaded(status) ==
  /\ pc = "app"
  /\ cli.data # NoAppData
  /\ cli' = [cli EXCEPT !.dataSource = dataSourceOf([connectionStatus |-> status]),
                        !.data = [origin |-> "upload", period |-> 0],
                        !.isConnected = TRUE]
  /\ UNCHANGED notClient

NextApp ==
  \/ AppMount
  \/ AppAutoRefresh
  \/ AppHandleRefresh
  \/ \E sel \in Selections : AppSetSelectedPeriod(sel)
  \/ \E i \in 1..NumRequests, o \in LoadOutcomes : AppLoadSettles(i, o)
  \/ \E status \in UploadStatuses : AppHandleDataUploaded(status)

SpecApp == InitApp /\ [][NextApp]_vars

\* ===================================================================== claims
IsDashboardGet == req.method = "GET" /\ req.cat = "both"
Answered == IsDashboardGet /\ pc = "done"

C2_FreshTokenReused ==
  (IsDashboardGet /\ manualToken = NullTok /\ ea.fresh) =>
    /\ ea.result = "true"
    /\ ea.calls = 0
    /\ ea.kept

\* a request found a fresh cached token
C2_Witness ==
  IsDashboardGet /\ manualToken = NullTok /\ ea.fresh /\ ea.result = "true"

\* C3: with no manual token and a cached token that is absent or expires
\* within five minutes, ensureAuthenticated issues exactly one token exchange
\* and returns whether that exchange succeeded (an exchange succeeds when it
\* yields an access token; a numeric token is left unjudged).
C3_StaleTokenOneExchange ==
  (IsDashboardGet /\ manualToken = NullTok /\ ~ea.fresh
     /\ ea.result \in {"true", "false"}) =>
    /\ ea.calls = 1
    /\ (ea.outcome = "okToken") => ea.result = "true"
    /\ (ea.outcome \in AuthFailures \cup {"okNullBody", "okNoToken"}) => ea.result = "false"

\* C4: a token exchange that fails by a network error, a non-2xx status or a
\* 2xx body without an access token makes ensureAuthenticated return false,
\* and the failure reason is recorded.
C4_FailedExchangeReturnsFalse ==
  (IsDashboardGet /\ ea.outcome \in AuthFailures \cup {"okNullBody", "okNoToken"}) =>
    /\ ea.result = "false"
    /\ (impl = "vercel") => lastAuthError # "null"

\* C5: with a manual token configured the process never issues a token
\* exchange, every ensureAuthenticated call returns true and every upstream
\* GET carries the manual token.
C5_ManualTokenBypassesOAuth ==
  (manualToken # NullTok) =>
    /\ exchanges = 0
    /\ ea.result \in {"none", "true"}
    /\ getTokens \subseteq {ManualTok}

\* C6: once a probed candidate has answered 401, the cached access token is
\* null before the code sends anything further.
C6_TokenNulledOn401 == after401.kind \in {"none", "null"}

\* bodies of a 2xx response that are not empty
NonEmptyBodies == {"okItems", "okEmptyItems", "okArray", "okText"}
\* the first candidate of the plan that answers 2xx with a non-empty body
FirstHit ==
  IF \E i \in 1..NumCandidates : plan[i] \in NonEmptyBodies
  THEN CHOOSE i \in 1..NumCandidates :
         /\ plan[i] \in NonEmptyBodies
         /\ \A j \in 1..(i - 1) : plan[j] \notin NonEmptyBodies
  ELSE 0
ProbeOver == pc = "probeOnly" /\ req.cat \in Categories /\ probe[req.cat].st = "done"

\* C7: when candidate k is the first to answer 2xx with a non-empty body, the
\* probe requests candidates 1..k in order, once each, and returns candidate
\* k's body.
C7_StopsAtFirstNonEmpty ==
  (ProbeOver /\ FirstHit > 0) =>
    /\ probe[req.cat].asked = [i \in 1..FirstHit |-> i]
    /\ probe[req.cat].result = Body(plan[FirstHit], FirstHit)

\* ways a candidate fails: network error, timeout, non-2xx, malformed body
CandidateFailures == GetErrors \cup {"okText"}

\* C8: when every candidate fails, the probe requests each candidate once and
\* returns null.
C8_AllFailGivesNull ==
  (ProbeOver /\ \A i \in 1..NumCandidates : plan[i] \in CandidateFailures) =>
    /\ probe[req.cat].asked = [i \in 1..NumCandidates |-> i]
    /\ probe[req.cat].result = NullValue

C10_NoDataConnectedNotReal ==
  (Answered /\ ea.result = "true"
     /\ probed["sends"] = "null" /\ probed["tracking"] = "null") =>
    /\ response.body.sfmcConnected = "true"
    /\ response.body.isRealData = FALSE

\* C11: after ensureAuthenticated returned true and at least one probe
\* sequence returned a body that is neither null nor empty, the payload has
\* isRealData = true, sfmcConnected = true and error undefined.
C11_RealDataFlags ==
  (Answered /\ ea.result = "true"
     /\ (probed["sends"] = "value" \/ probed["tracking"] = "value")) =>
    /\ response.body.isRealData = TRUE
    /\ response.body.sfmcConnected = "true"
    /\ response.body.error = "undefined"

\* C12: a payload in which synthetic data stands in for real data, either
\* because ensureAuthenticated returned false or because it returned true and
\* both probe sequences returned null, carries a non-empty error string.
C12_SubstitutedDataHasError ==
  (Answered /\ (ea.result = "false"
                  \/ (ea.result = "true" /\ probed["sends"] = "null"
                        /\ probed["tracking"] = "null"))) =>
    response.body.error \notin {"undefined", ""}

\* C13: with several dashboard requests in progress at the same time, the
\* cached token and the cached expiry are the pair one token exchange wrote,
\* and a request is disturbed by the race in nothing but the number of token
\* exchanges: as when it runs alone, each of its candidate GETs carries a token.
C13_RaceOnlyCostsExchanges ==
  (pc = "race") =>
    /\ (accessToken # NullTok) =>
          \E r \in Requests : reqs[r].wrote = <<accessToken, tokenExpiry>>
    /\ \A r \in Requests :
          reqs[r].carried \subseteq {"oauth", "number", "manual"}

\* what a candidate request can end in without giving the probe a body: an
\* error, a timeout, a non-2xx status, or a 2xx response with an empty body
UnansweredOutcomes == GetErrors \cup {"okNull", "okEmptyObj", "okEmptyStr"}

\* C14: within a probe sequence the candidates are requested one at a time,
\* in order, candidate i+1 only once candidate i's request has completed
\* as a failure, so at most one request of a sequence is in flight; the
\* email-sends and the tracking-events sequence of one dashboard request are
\* both started before either has an answer and advance independently.
C14_SequentialInterleaved ==
  (pc = "probeOnly") =>
    \A c \in Categories :
      /\ (req.cat = "both") => probe[c].st # "off"
      /\ probe[c].asked = [i \in 1..Len(probe[c].asked) |-> i]
      /\ (probe[c].st = "waiting") => Len(probe[c].asked) = probe[c].idx
      /\ \A i \in 1..(Len(probe[c].asked) - 1) : plan[i] \in UnansweredOutcomes

\* the email-sends sequence waits for its second candidate while the
\* tracking-events sequence still waits for its first
C14_Witness ==
  /\ pc = "probeOnly" /\ req.cat = "both"
  /\ probe["sends"].st = "waiting" /\ probe["sends"].idx = 2
  /\ probe["tracking"].st = "waiting" /\ probe["tracking"].idx = 1

\* C15: within a probe sequence a candidate whose request failed for a
\* reason other than 401 is not requested again, and a candidate that answered
\* 401 is requested a second time at most once, after exactly one token
\* exchange.
C15_RetryOnlyAfter401 ==
  (pc = "service") =>
    \A i \in 1..NumCandidates :
      /\ svc.gets[i] <= 2
      /\ (svc.first[i] # "s401") => (svc.gets[i] <= 1 /\ svc.reauths[i] = 0)
      /\ (svc.gets[i] = 2) => (svc.first[i] = "s401" /\ svc.reauths[i] = 1)

\* the first candidate answered 401 and was requested a second time, the
\* second one failed with a 500 and the sequence is over
C15_Witness ==
  /\ pc = "service" /\ svc.pc = "done"
  /\ svc.first[1] = "s401" /\ svc.gets[1] = 2 /\ svc.reauths[1] = 1
  /\ svc.first[NumCandidates] = "s500" /\ svc.gets[NumCandidates] = 1

\* a token exchange that answered with a token has completed
ExchangeSucceeded == pc = "exchange" /\ xchg.pc = "done" /\ xchg.o = "okToken"

\* C16 as stated: after a successful token exchange at time t whose response
\* gives expires_in = E seconds, the cached expiry is t + E minus the safety
\* margin (five minutes in the handler modules, 120 s in DebugSFMCService).
C16_ExpiryMinusMargin ==
  ExchangeSucceeded =>
    xchg.exp = now + xchg.e * 1000
                 - (IF xchg.v = "service" THEN 120 * 1000 ELSE 5 * 60 * 1000)

\* delays after the exchange at which the cache is looked at, in milliseconds
CheckDelays(e) ==
  {d \in {0, 1, e * 1000 - 300001, e * 1000 - 300000, e * 1000 - 120001,
          e * 1000 - 120000, e * 1000 - 1, e * 1000} : d >= 0}

\* C16 amended: after a successful token exchange at time t whose response
\* gives expires_in = E seconds, the handler modules cache the expiry t + E and
\* apply the five-minute margin when they test the cache, so the token counts
\* as stale from t + E - 5 min on; DebugSFMCService caches t + E - 120 s and
\* tests without a margin, so the token counts as stale from that instant on.
C16_ExpiryPerHolder ==
  ExchangeSucceeded =>
    IF xchg.v = "service"
    THEN /\ xchg.exp = now + xchg.e * 1000 - 120 * 1000
         /\ \A d \in CheckDelays(xchg.e) :
              TokenInvalid(xchg.tok, xchg.exp, now + d) <=> (d >= xchg.e * 1000 - 120 * 1000)
    ELSE /\ xchg.exp = now + xchg.e * 1000
         /\ \A d \in CheckDelays(xchg.e) :
              CacheStale(xchg.tok, xchg.exp, now + d) <=> (d >= xchg.e * 1000 - 5 * 60 * 1000)

\* server.cjs has cached a token whose response gave expires_in = 3600
C16_Witness ==
  /\ ExchangeSucceeded /\ xchg.v = "server" /\ xchg.e = 3600
  /\ xchg.tok = OAuthTok(1) /\ xchg.exp = now + 3600 * 1000

\* C17: when the client id, the client secret or the subdomain is missing at
\* startup, no dashboard request issues a token exchange or an upstream GET,
\* and every dashboard payload has isRealData = false.
C17_MissingCredentialsDemoOnly ==
  (~credsOk) =>
    /\ exchanges = 0
    /\ getTokens = {}
    /\ Answered => response.body.isRealData = FALSE

\* generateDemoData has returned for one of the periods the dashboard offers
DemoFor(periods) ==
  pc = "demo" /\ demo.pc = "returned" /\ demo.daysPeriod \in periods

\* C18: for a period of 7, 30 or 90 the synthesized trends list has exactly
\* period entries, their dates are consecutive calendar days in ascending
\* order and end today (the UTC or the local day of the call), and each entry
\* has opens in [500 * period / 30, 1500 * period / 30) and clicks in
\* [100 * period / 30, 300 * period / 30).
C18_TrendsCoverPeriod ==
  DemoFor({7, 30, 90}) =>
    LET t == demo.trends
        n == demo.daysPeriod
    IN /\ Len(t) = n
       /\ \A j \in 1..(Len(t) - 1) : t[j + 1].date = t[j].date + 1
       /\ t[Len(t)].date \in {Today, isoDate(demo.env, Today)}
       /\ \A j \in 1..Len(t) :
            /\ 500 * n <= t[j].opens30 /\ t[j].opens30 < 1500 * n
            /\ 100 * n <= t[j].clicks30 /\ t[j].clicks30 < 300 * n

\* the baselines of the 30-day metric set
Baselines ==
  [totalSent |-> 50000, delivered |-> 48500, opened |-> 14550, clicked |-> 2180,
   bounced |-> 1500]

\* C19: for a period of 7, 30 or 90 the synthesized overview.totalSent is
\* floor(50000 * period / 30), within less than 1 of the proportional value,
\* and delivered, opened, clicked and bounced are scaled the same way from
\* 48500, 14550, 2180 and 1500.
C19_OverviewScalesWithPeriod ==
  DemoFor({7, 30, 90}) =>
    \A f \in DOMAIN Baselines :
      /\ 30 * demo.overview[f] <= Baselines[f] * demo.daysPeriod
      /\ Baselines[f] * demo.daysPeriod < 30 * (demo.overview[f] + 1)

\* the overview of a 7-day period
C19_Witness ==
  /\ DemoFor({7})
  /\ demo.overview.totalSent = 11666 /\ demo.overview.bounced = 350

\* C20: for every period the handler accepts (a non-zero integer parsed from
\* the query string, 30 when it is absent or unparsable) every overview field
\* and the opens and clicks of every trend entry are non-negative integers.
C20_CountsAreNaturals ==
  (pc = "demo" /\ demo.pc = "returned") =>
    /\ \A f \in DOMAIN Baselines : demo.overview[f] >= 0
    /\ \A j \in 1..Len(demo.trends) :
         /\ demo.trends[j].opens30 >= 0 /\ demo.trends[j].opens30 % 30 = 0
         /\ demo.trends[j].clicks30 >= 0 /\ demo.trends[j].clicks30 % 30 = 0
\* the CSV import went through: the file was posted, the handler answered with
\* success and the panel's timer handed the data to App
CsvMerged ==
  pc = "upload" /\ upl.origin = "file" /\ upl.pc = "done" /\ upl.uploadStatus = "success"
\* the sum over the uploaded rows of the column found under one of the names
RowSum(names) ==
  LET rows == parse(upl.csvData).val
      cell(r) == IntOf(r, names, Num(0))
  IN SumOver(rows, cell, Len(rows))

\* C21: after a campaign CSV went through the import flow, the merged
\* overview's totalSent, opened, clicked and bounced are the sums of the rows'
\* sent, opened, clicked and bounced values (rows 100/40 and 200/50 give 300
\* and 90).
C21_MergedTotalsAreRowSums ==
  (/\ CsvMerged
   /\ Len(parse(upl.csvData).val) > 0
   /\ ~RowSum(<<"Sent", "Total Sent", "Recipients">>).nan) =>
    /\ upl.data.overview.totalSent = RowSum(<<"Sent", "Total Sent", "Recipients">>).n
    /\ upl.data.overview.opened = RowSum(<<"Opened", "Total Opens", "Unique Opens">>).n
    /\ upl.data.overview.clicked = RowSum(<<"Clicked", "Total Clicks", "Unique Clicks">>).n
    /\ upl.data.overview.bounced = RowSum(<<"Bounced", "Total Bounces">>).n

\* the manual form went through: App got its campaigns
ManualMerged ==
  pc = "upload" /\ upl.origin = "manual" /\ upl.pc = "done" /\ upl.errorMessage = ""

\* C22: after uploaded data is merged the payload has isRealData = true and
\* sfmcConnected = true, its campaigns are the uploaded ones (the campaigns the
\* handler made of the CSV rows; the valid rows of the form, by name and sent
\* count), and connectionStatus names CSV import or manual entry.
C22_MergedIsUploaded ==
  /\ (CsvMerged \/ ManualMerged) =>
       upl.data.isRealData /\ upl.data.sfmcConnected
  /\ CsvMerged =>
       /\ upl.data.campaigns = JsonCampaigns(upl.res.data.campaigns)
       /\ upl.data.connectionStatus = "Data imported from CSV"
  /\ ManualMerged =>
       /\ Len(upl.data.campaigns) = Len(validCampaigns(upl.form))
       /\ \A i \in 1..Len(upl.data.campaigns) :
            /\ upl.data.campaigns[i].name = validCampaigns(upl.form)[i].name
            /\ upl.data.campaigns[i].sent = IntOrZero(validCampaigns(upl.form)[i].sent)
       /\ upl.data.connectionStatus = "Manual data entry"

\* POST /api/upload has answered
UploadAnswered == pc = "upload" /\ upl.method = "POST" /\ upl.res.status # 0
\* a 400 answer with an error field and a non-empty details field
Rejected ==
  /\ upl.res.status = 400
  /\ upl.res.error # "absent"
  /\ upl.res.details \notin {"absent", ""}
\* uploaded texts that are not CSV: prose, rows longer than the header line, a
\* quoted field that is never closed
NotCsv == {Prose, Ragged, Unclosed}

\* C23: every 400 answer of POST /api/upload has an error field and a
\* non-empty details field, and a csvData that is not valid CSV gets such an
\* answer.
C23_InvalidCsvRejectedWithDetails ==
  UploadAnswered =>
    /\ (upl.res.status = 400) => Rejected
    /\ (upl.csvData \in NotCsv) => Rejected

\* the text parses into at least one row and its header line has no
\* sent-count column
LacksSentColumn(csv) ==
  /\ csv.k = "text"
  /\ ~parse(csv).threw
  /\ Len(parse(csv).val) > 0
  /\ \A j \in 1..Len(csv.lines[1]) :
       csv.lines[1][j] \notin {"Sent", "Total Sent", "Recipients"}

\* C24: a POST /api/upload of campaign data whose CSV parses but has no
\* sent-count column is answered 400 with details, never with success.
C24_MissingColumnsRejected ==
  (UploadAnswered /\ upl.dataType = "campaigns" /\ LacksSentColumn(upl.csvData)) =>
    Rejected /\ ~upl.res.success

\* C25: POST /api/upload changes no server-side state: the step in which the
\* upload handler runs leaves the token cache and every other variable of the
\* module as it found them, so the dashboard handler goes on from the state it
\* would have been in without the upload.
C25_UploadLeavesServerState ==
  [][(upl' # upl) =>
       UNCHANGED <<config, started, startupPending, now, accessToken, tokenExpiry,
                   lastAuthError, exchanges, pc, req, ea, probe, plan, after401,
                   getTokens, probed, response>>]_vars

\* an upload was answered while a dashboard request waited for the token
\* exchange or a candidate, and that request has since been answered with a
\* token still in the cache
C25_Witness ==
  /\ upl # NoUpload /\ upl.mid /\ upl.res.status = 200
  /\ Answered /\ response.sent = 1
  /\ Truthy(accessToken)

\* 2xx answers with nothing in them: {items: []}, [] and {}
EmptyAnswers == {"okEmptyItems", "okEmptyArray", "okEmptyObj"}
\* the first candidate that answers neither with an error nor with an empty
\* 2xx body; 0 when there is none
FirstFilled ==
  IF \E i \in 1..NumCandidates : plan[i] \notin GetErrors \cup EmptyAnswers
  THEN CHOOSE i \in 1..NumCandidates :
         /\ plan[i] \notin GetErrors \cup EmptyAnswers
         /\ \A j \in 1..(i - 1) : plan[j] \in GetErrors \cup EmptyAnswers
  ELSE 0

\* C26: a candidate answering 2xx with an empty item collection, an empty
\* array or an empty object is not a hit: the probe goes on to the next
\* candidate, and when every candidate answers that way it returns null, so
\* that the handler finds no real data.
C26_EmptyAnswerIsNoHit ==
  \A c \in Categories :
    (pc = "probeOnly" /\ probe[c].st = "done") =>
      /\ \A i \in 1..(NumCandidates - 1) :
           (plan[i] \in EmptyAnswers /\ (FirstFilled = 0 \/ i < FirstFilled)) =>
             \E j \in 1..Len(probe[c].asked) : probe[c].asked[j] = i + 1
      /\ (\A i \in 1..NumCandidates : plan[i] \in EmptyAnswers) =>
           /\ probe[c].result = NullValue
           /\ (req.cat = "both" /\ \A d \in Categories : probe[d].st = "done")
                => ~HasRealData(probe)

\* the candidates that gave the loop a non-empty item collection
HitSet == {svc.hits[k] : k \in 1..Len(svc.hits)}
\* getEmailSends: nothing is tried after a hit, and the first hit is returned
SendsStopAtFirstHit ==
  (pc = "service" /\ svc.cat = "sends") =>
    /\ \A i \in HitSet : \A j \in (i + 1)..NumCandidates : j \notin svc.tried
    /\ (svc.pc = "done" /\ svc.hits # <<>>) =>
         (svc.result = "items" /\ svc.hit = svc.hits[1])

LastHitOf(t) ==
  LET ofType == {i \in HitSet : eventTypeOf(svc.from + i - 1) = t}
  IN IF ofType = {} THEN 0 ELSE CHOOSE i \in ofType : \A j \in ofType : j <= i

InFlight == IsDashboardGet /\ pc \in {"awaitAuth", "probing", "awaitDefs"}
\* the candidates sequence c has requested: 1, 2, ... in order, each once
AskedOnceEach(c) ==
  /\ Len(probe[c].asked) <= NumCandidates
  /\ \A j \in 1..Len(probe[c].asked) : probe[c].asked[j] = j

\* the order of the handler's waits within one request
Phase(p) ==
  CASE p = "awaitAuth" -> 1 [] p = "probing" -> 2 [] p = "awaitDefs" -> 3
    [] p = "done" -> 4 [] OTHER -> 0

serverState ==
  <<config, started, startupPending, now, cache, exchanges, pc, req, ea, probe, plan,
    after401, getTokens, probed, response>>

\* C29: GET /api/health of server.cjs answers status "ok" and authenticated
\* true or false (true exactly while a truthy token is cached whose expiry lies
\* ahead), and answering it issues no upstream call and leaves the cached
\* token and expiry, and all other state of the server, as they were.
C29_HealthAnswersAndLeavesCache ==
  /\ [](hc # NoHealth =>
          /\ hc.status = "ok"
          /\ hc.authenticated \in {"true", "false"})
  /\ [][hc' # hc =>
          /\ hc'.authenticated =
               JsBool(Truthy(accessToken) /\ tokenExpiry # NoExpiry /\ tokenExpiry > now)
          /\ UNCHANGED serverState]_vars

\* health has answered true after a token exchange, and the dashboard handler
\* waits for a candidate's answer
C29_Witness ==
  /\ hc # NoHealth /\ hc.authenticated = "true"
  /\ Truthy(accessToken) /\ exchanges > 0 /\ pc = "probing"

\* the call did not get a 2xx answer of the backend
BackendFailed == cli.outcome \in AxiosFailures \cup {"threw"}

\* C30: sfmcService.getDashboardData never rejects; when the backend call
\* fails or times out it resolves with demo data made for the requested
\* period (overview and one trend entry per day of it), isRealData false and
\* an error that starts with "Backend API error:".
C30_ClientFallsBackToDemo ==
  cli # NoClient /\ cli.pc = "settled" =>
    /\ cli.result.settled = "resolved"
    /\ BackendFailed =>
         /\ cli.result.value.k = "payload"
         /\ cli.result.value.isRealData = FALSE
         /\ Head(cli.result.value.error) = "Backend API error: "
         /\ cli.result.value.overview = overview(cli.period)
         /\ Len(cli.result.value.trends) = cli.period

\* the backend call for 7 days ran into its timeout and the call has settled
C30_Witness ==
  /\ cli # NoClient /\ cli.pc = "settled" /\ cli.outcome = "timeout"
  /\ cli.period = 7 /\ cli.result.value.overview.totalSent = 11666

\* POST /api/upload has answered a caller that named no known dataType, and
\* the CSV had at least one record
AutoDetected ==
  /\ upl # NoUpload /\ upl.origin = "api" /\ upl.pc = "answered"
  /\ upl.method = "POST" /\ upl.dataType = "other"
  /\ upl.res.status = 200
  /\ Len(parse(upl.csvData).val) > 0

\* the column names of the CSV: the cells of its first non-empty line
ColumnNames(csv) ==
  LET header == SelectSeq(csv.lines, LAMBDA l : l # <<>>)[1]
  IN {header[j] : j \in 1..Len(header)}

\* C31: without a known dataType the upload handler chooses the processing
\* from the column names of the first record: campaign processing when a name
\* contains 'campaign', 'email' or 'subject'; else tracking processing when a
\* name contains 'event', 'open' or 'click'; else campaign processing.
C31_AutoDetectByColumnNames ==
  AutoDetected =>
    LET names == ColumnNames(upl.csvData)
        records == parse(upl.csvData).val
    IN IF names \cap CampaignLike = {} /\ names \cap TrackingLike # {}
       THEN /\ upl.res.data.k = "tracking"
            /\ upl.res.data.totals = processTrackingData(records)
       ELSE /\ upl.res.data.k = "campaigns"
            /\ upl.res.data.campaigns = processCampaignData(records)

\* a CSV whose columns look like both campaign and tracking data was answered
C31_Witness ==
  /\ AutoDetected
  /\ ColumnNames(upl.csvData) \cap CampaignLike # {}
  /\ ColumnNames(upl.csvData) \cap TrackingLike # {}
  /\ upl.res.data.k = "campaigns"

\* the token exchange of request r ends in this step as a failure:
\* authenticate() returns false
ExchangeFails(r) ==
  /\ reqs[r].pc = "awaitAuth"
  /\ reqs'[r].pc # "awaitAuth"
  /\ reqs'[r].ret = "false"

\* C32: the step in which a token exchange fails leaves the cached access
\* token and the cached expiry as they were, also when another request's
\* exchange has stored a token since the failing one was issued.
C32_FailedExchangeKeepsCache ==
  [][\A r \in Requests :
       (pc = "race" /\ ExchangeFails(r)) => UNCHANGED <<accessToken, tokenExpiry>>]_vars

\* the token exchange of a request has stored a token
StoredToken(request) == request.wrote[1] # NoneTok /\ Truthy(request.wrote[1])

\* request r of server.cjs arrives in this step, the request before it
\* having been answered after a failed token exchange
FollowsFailure(r) ==
  /\ pc = "race" /\ impl = "server"
  /\ r - 1 \in Requests
  /\ reqs[r - 1].pc = "done" /\ reqs[r - 1].ret = "false"
  /\ reqs[r].pc = "idle" /\ reqs'[r].pc # "idle"

\* C33: an authentication failure is not cached by server.cjs: the dashboard
\* request that follows a failed token exchange issues a new exchange, and a
\* request whose exchange has stored a token goes on to ask the candidates, its
\* answer not being the authentication-failed payload.
C33_FailureNotCached ==
  /\ [][\A r \in Requests :
          FollowsFailure(r) =>
            (reqs'[r].pc = "awaitAuth" /\ exchanges' = exchanges + 1)]_vars
  /\ [][\A r \in Requests :
          (/\ pc = "race" /\ impl = "server"
           /\ reqs[r].pc = "awaitAuth" /\ reqs'[r].pc # "awaitAuth"
           /\ StoredToken(reqs'[r])) =>
             (/\ reqs'[r].pc = "probing"
              /\ reqs'[r].ret = "true"
              /\ reqs'[r].response = NoResponse)]_vars

\* after a request whose exchange failed, the next request's exchange has
\* stored a token and the request asks the candidates
C33_Witness ==
  /\ pc = "race" /\ impl = "server"
  /\ \E r \in Requests :
       /\ r - 1 \in Requests
       /\ reqs[r - 1].pc = "done" /\ reqs[r - 1].ret = "false"
       /\ reqs[r - 1].response = Json(AuthFailedPayload("server", lastAuthError))
       /\ reqs[r].pc = "probing" /\ StoredToken(reqs[r])

\* C34: right after a successful token exchange, whatever expires_in the
\* response gave, the holder's own test finds the cached token valid: a second
\* ensureAuthenticated (ensureValidToken) at the same instant would issue no
\* token exchange.
C34_ValidRightAfterExchange ==
  ExchangeSucceeded =>
    IF xchg.v = "service"
    THEN ~TokenInvalid(xchg.tok, xchg.exp, now)
    ELSE ~CacheStale(xchg.tok, xchg.exp, now)

\* C35: when makeApiCall of DebugSFMCService resolves, the body it hands to
\* its caller came from a 2xx response; a second fetch that again answers
\* with a failure status makes it reject.
C35_ResolvesOnlyOn2xx ==
  (pc = "service" /\ svc.last.settled = "resolved") => svc.last.from \in ServiceOk

C38_NeverRejectsAndReports ==
  (pc = "dual" /\ svc.phase = "done") =>
    /\ svc.result.settled = "resolved"
    /\ IF svc.authThrew
       THEN svc.result.value = serviceErrorPayload
       ELSE /\ svc.result.value.sfmcConnected = TRUE
            /\ svc.result.value.isRealData = (svc.sends \in {"items", "array", "string"})

\* C37: the authenticated flag GET /api/health reports is true exactly when
\* ensureAuthenticated, called at the same instant, would return true without
\* a token exchange: a manual token is configured, or the cached token is not
\* stale.
C37_HealthAgreesWithEnsureAuthenticated ==
  [][HealthRequest =>
       ((hc'.authenticated = "true") <=>
          (manualToken # NullTok \/ ~CacheStale(accessToken, tokenExpiry, now)))]_vars

\* C39: for every period of at least one day the overview of
\* generateDemoData has totalSent >= delivered >= opened >= clicked >= 0 and
\* 0 <= bounced <= totalSent.
C39_DemoOverviewOrdered ==
  (pc = "demo" /\ demo.pc = "returned" /\ demo.daysPeriod >= 1) =>
    /\ demo.overview.totalSent >= demo.overview.delivered
    /\ demo.overview.delivered >= demo.overview.opened
    /\ demo.overview.opened >= demo.overview.clicked
    /\ demo.overview.clicked >= 0
    /\ 0 <= demo.overview.bounced
    /\ demo.overview.bounced <= demo.overview.totalSent

\* the overview of a one-day period
C39_Witness ==
  /\ pc = "demo" /\ demo.pc = "returned" /\ demo.daysPeriod = 1
  /\ demo.overview = [totalSent |-> 1666, delivered |-> 1616, opened |-> 485,
                      clicked |-> 72, bounced |-> 50]

\* C40: in App, while the data-source label reports CSV or manual data, the
\* data on display is the uploaded data: no refresh and no period change puts
\* API data under that label.
C40_LabelMatchesDisplayedData ==
  (pc = "app" /\ cli.dataSource \in {"csv", "manual"}) => cli.data.origin = "upload"

====
